---- MODULE Spec2Model ----
(***************************************************************************)
(* Causeway: pre-flight rule checking of tool calls.                       *)
(*                                                                         *)
(* The model follows src/rule_agent.py (Pattern Matcher, Semantic          *)
(* Candidate Finder, Arbitration Stage, Policy Evaluator) and the two      *)
(* evaluation entrypoints src/scripts/check_rules.py and                   *)
(* src/causeway/hooks/check_rules.py, over the rules table of src/db.py.   *)
(*                                                                         *)
(* Text is a sequence of one-character strings.  The empty sequence        *)
(* stands for both None and '' (Python treats both as false).              *)
(***************************************************************************)
EXTENDS Integers, Sequences, FiniteSets, TLC

\* ------------------------------------------------------------------ bounds
\* Largest number of rows the rules table holds in the model.
MaxRules == 2

\* Largest rowid the rules table hands out in the model.
MaxId == 3

\* Number of rules of the store the vector search is run against.
KnnRows == 6

\* Largest number of proposals the LLM returns for one learning run.
MaxChanges == 2

\* ------------------------------------------------------- program constants
\* find_semantic_rules(..., top_k = 5)
TopK == 5
\* rules = rules[:5] in check_rules_with_llm
LlmRuleCap == 5
\* distances are in tenths: r['distance'] < 0.8
CloseDistance == 8
\* 'distance': 0.5 given to keyword matches
KeywordDistance == 5

\* ------------------------------------------------------------------- text
\* str.lower() on one character of the model's alphabet.
Lower(c) ==
    CASE c = "R" -> "r"
      [] c = "M" -> "m"
      [] c = "L" -> "l"
      [] c = "S" -> "s"
      [] OTHER -> c

\* str.lower()
LowerStr(s) == [i \in 1..Len(s) |-> Lower(s[i])]

\* The other letter case of a character (str.swapcase on one character).
SwapCase(c) ==
    CASE c = "R" -> "r" [] c = "r" -> "R"
      [] c = "M" -> "m" [] c = "m" -> "M"
      [] c = "L" -> "l" [] c = "l" -> "L"
      [] c = "S" -> "s" [] c = "s" -> "S"
      [] OTHER -> c

\* The strings that differ from s only in letter case.
CaseVariants(s) ==
    {t \in [1..Len(s) -> {s[i] : i \in 1..Len(s)} \cup {SwapCase(s[i]) : i \in 1..Len(s)}] :
        \A i \in 1..Len(s) : t[i] \in {s[i], SwapCase(s[i])}}

\* p occurs in s starting at position i.
OccursAt(p, s, i) ==
    /\ i + Len(p) - 1 <= Len(s)
    /\ \A j \in 1..Len(p) : s[i + j - 1] = p[j]

\* str.split(): the set of whitespace-separated words of s.
Words(s) ==
    {SubSeq(s, p[1], p[2]) : p \in
        {q \in (1..Len(s)) \X (1..Len(s)) :
            /\ q[1] <= q[2]
            /\ \A k \in q[1]..q[2] : s[k] # " "
            /\ (q[1] = 1 \/ s[q[1] - 1] = " ")
            /\ (q[2] = Len(s) \/ s[q[2] + 1] = " ")}}

\* ------------------------------------------------------------------ regex
\* re.compile fails (re.error) on an unbalanced parenthesis; "(" is the only
\* metacharacter of the model besides the anchor "^".
re_error(p) == \E i \in 1..Len(p) : p[i] = "("

\* re.search(p, s, flags) for a pattern that compiles: literal search, with
\* a leading "^" anchoring the match at the start of s.
re_search(p, s, ignorecase) ==
    LET pp == IF ignorecase THEN LowerStr(p) ELSE p
        ss == IF ignorecase THEN LowerStr(s) ELSE s
    IN  IF Len(pp) > 0 /\ pp[1] = "^"
        THEN OccursAt(Tail(pp), ss, 1)
        ELSE \E i \in 1..(Len(ss) + 1) : OccursAt(pp, ss, i)

\* json.loads(patterns_json) in matches_patterns. The patterns column holds
\* NULL (json = "null"), text that is not JSON (json = "invalid") or a JSON
\* array of pattern strings (json = "list").
NoPatterns == [json |-> "null", items |-> <<>>]
BadJson == [json |-> "invalid", items |-> <<>>]
PatternList(items) == [json |-> "list", items |-> items]

\* matches_patterns: the patterns are tried in order with re.IGNORECASE; the
\* first one that fails to compile ends the scan with False (re.error is
\* caught), as does invalid JSON (json.JSONDecodeError is caught).
matches_patterns(tool_input, patterns_json) ==
    IF patterns_json.json # "list"
    THEN FALSE
    ELSE LET ps == patterns_json.items
         IN  \E i \in 1..Len(ps) :
                /\ ~re_error(ps[i])
                /\ re_search(ps[i], tool_input, TRUE)
                /\ \A j \in 1..(i - 1) : ~re_error(ps[j])

\* ------------------------------------------------------------ rules table
\* A row of the rules table inserted with the given columns; problem and
\* source_session_id stay NULL ("" and 0 in the model).
Rule(type, pattern, patterns, description, solution, tool, action, active, priority, llm_review, hard) ==
    [type |-> type, pattern |-> pattern, patterns |-> patterns,
     description |-> description, solution |-> solution, tool |-> tool,
     action |-> action, active |-> active, priority |-> priority,
     llm_review |-> llm_review, hard |-> hard, problem |-> "",
     source_session_id |-> 0]

\* Rows inserted into the table in the model.
RuleTemplates ==
    { \* pattern "rm": hard block
      Rule("regex", <<"r","m">>, NoPatterns, <<"x">>, "fix", "NULL",
           "block", 1, 0, 0, 1),
      \* patterns ["rm"]: soft warn, Bash only, higher priority
      Rule("regex", <<>>, PatternList(<< <<"r","m">> >>), <<"x">>, "", "Bash",
           "warn", 1, 1, 0, 0),
      \* pattern "^rm": hard block deferred to review
      Rule("regex", <<"^","r","m">>, NoPatterns, <<"x">>, "", "NULL",
           "block", 1, 0, 1, 1),
      \* pattern "(": does not compile
      Rule("regex", <<"(">>, NoPatterns, <<"x">>, "", "NULL",
           "block", 1, 0, 0, 0),
      \* patterns ["(", "rm"]: first entry does not compile
      Rule("regex", <<>>, PatternList(<< <<"(">>, <<"r","m">> >>), <<"x">>, "",
           "NULL", "warn", 1, 0, 0, 0),
      \* pattern "ls": action log
      Rule("regex", <<"l","s">>, NoPatterns, <<"x">>, "", "NULL",
           "log", 1, 0, 0, 0),
      \* pattern "rm": soft warn, highest priority
      Rule("regex", <<"r","m">>, NoPatterns, <<"x">>, "", "NULL",
           "warn", 1, 2, 0, 0),
      \* pattern "rm": inactive
      Rule("regex", <<"r","m">>, NoPatterns, <<"x">>, "", "NULL",
           "block", 0, 0, 0, 0),
      \* semantic "no rm": hard block
      Rule("semantic", <<>>, NoPatterns, <<"n","o"," ","r","m">>, "fix", "NULL",
           "block", 1, 0, 0, 1),
      \* semantic "use ls": soft warn, Bash only
      Rule("semantic", <<>>, NoPatterns, <<"u","s","e"," ","l","s">>, "", "Bash",
           "warn", 1, 0, 0, 0) }

\* Tool names, tool inputs and justifications of the requests.
Tools == {"Bash", "Edit"}
Inputs == { <<"r","m"," ","x">>, <<"R","M"," ","x">>, <<"l","s">> }
\* A justification is a sequence of words; <<>> is None.
OverrideToken == "OVERRIDE:"
Justifications == { <<>>, <<"because">>, <<OverrideToken, "reason">> }

\* ------------------------------------------------------------------ state
VARIABLES
    rules,              \* rules table: id -> row
    rule_embeddings,    \* rule_embeddings table: rule_id -> embedded text
    pc,                 \* position of the evaluation in main
    req,                \* the hook input: tool_name, tool_input, justification
    regex,              \* result of check_regex_rules
    semantic_rules,     \* result of find_semantic_rules
    all_rules_for_llm,  \* the list check_with_agent hands to check_rules_with_llm
    llm_prompt,         \* the rule lines and justification sent to the LLM
    llm_judged,         \* ids of the sent rules the LLM finds actually violated
    decision,           \* the RuleDecision returned by check_with_agent
    raised,             \* the exception that left check_rules_async, or "none"
    exit,               \* what the main of each entrypoint reports to the caller
    trace,              \* the traces row main writes for this evaluation
    embed_calls,        \* generate_embedding calls made by check_with_agent
    llm_calls,          \* agent.run calls made by check_with_agent
    last_op,            \* the last call of a rule store handler and what it did
    assigned_ids,       \* the ids given to rows of the rules table so far
    learn,              \* the learning run: position, proposals, results, stats
    fmt,                \* a call of format_transcript: its arguments and its result
    race                \* the sync of an evaluation and a rule store handler, statement by statement

vars == <<rules, rule_embeddings, pc, req, regex, semantic_rules,
          all_rules_for_llm, llm_prompt, llm_judged, decision, raised, exit,
          trace, embed_calls, llm_calls, last_op, assigned_ids, learn, fmt, race>>

store_vars == <<rules, rule_embeddings>>
store_hist == <<last_op, assigned_ids>>
eval_vars == <<regex, semantic_rules, all_rules_for_llm, llm_prompt, llm_judged,
               decision, raised, exit, trace, embed_calls, llm_calls>>

\* Largest element of a non-empty set of integers.
Max(S) == CHOOSE m \in S : \A n \in S : n <= m

\* id INTEGER PRIMARY KEY: a row inserted without an id gets the largest
\* rowid in the table plus one (1 in an empty table).
next_rowid(table) == IF DOMAIN table = {} THEN 1 ELSE Max(DOMAIN table) + 1

\* The table with one more row.
insert_row(table, id, row) ==
    [i \in DOMAIN table \cup {id} |-> IF i = id THEN row ELSE table[i]]

\* The table without the row id.
delete_row(table, id) == [i \in DOMAIN table \ {id} |-> table[i]]

\* -------------------------------------------------------- Pattern Matcher
\* The query without its condition on tool.
regex_rows_any_tool(table, tool_name) ==
    {id \in DOMAIN table :
        /\ table[id].type = "regex"
        /\ table[id].active = 1}

\* WHERE type = 'regex' AND active = 1 AND (tool IS NULL OR tool = ?)
regex_rows(table, tool_name) ==
    {id \in DOMAIN table :
        /\ table[id].type = "regex"
        /\ table[id].active = 1
        /\ table[id].tool \in {"NULL", tool_name}}

\* ORDER BY priority DESC (rows of equal priority in rowid order).
RECURSIVE order_by_priority(_, _)
order_by_priority(table, ids) ==
    IF ids = {} THEN <<>>
    ELSE LET first == CHOOSE i \in ids : \A j \in ids :
                          \/ table[i].priority > table[j].priority
                          \/ (table[i].priority = table[j].priority /\ i <= j)
         IN  <<first>> \o order_by_priority(table, ids \ {first})

\* The single pattern of a row is searched when it is set (not NULL, not '').
has_single_pattern(row) == row.pattern # <<>>

\* if row['pattern'] and re.search(row['pattern'], tool_input): matched
\* elif matches_patterns(tool_input, row['patterns']): matched
row_matched(row, tool_input) ==
    \/ (has_single_pattern(row) /\ re_search(row.pattern, tool_input, FALSE))
    \/ matches_patterns(tool_input, row.patterns)

\* re.search(row['pattern'], ...) raises re.error, which check_regex_rules
\* does not catch.
row_raises(row) == has_single_pattern(row) /\ re_error(row.pattern)

\* if row['llm_review']: the match is deferred to the LLM.
needs_review_never(row) == FALSE

needs_review(row) == row.llm_review # 0

\* action = "block" if blocks else "warn"
combined_action_warn_first(blocks, warns) == IF warns # <<>> THEN "warn" ELSE "block"

combined_action_always_block(blocks, warns) == "block"

combined_action(blocks, warns) == IF blocks # <<>> THEN "block" ELSE "warn"

\* The dict appended to llm_review_needed (no 'hard' key is selected).
review_entry(table, id) ==
    [id |-> id, description |-> table[id].description, action |-> table[id].action]

\* The dict appended to matched_rules.
matched_entry(table, id) ==
    [id |-> id, description |-> table[id].description, action |-> table[id].action,
     solution |-> table[id].solution]

\* One line of the combined message: "[BLOCK #id] description -> solution".
message_line(tag, r) == [tag |-> tag, id |-> r.id, solution |-> r.solution]

\* The rules of one action, last evaluated first.
Filter_reversed(q, a) ==
    LET s == SelectSeq(q, LAMBDA r : r.action = a)
    IN  [i \in 1..Len(s) |-> s[Len(s) + 1 - i]]

\* [r for r in q if r['action'] == a]
Filter(q, a) == SelectSeq(q, LAMBDA r : r.action = a)

\* check_regex_rules: (raised, passed, rejection_reason, action,
\* rules_needing_llm_review); matched_rules is kept for the properties.
check_regex_rules(table, tool_name, tool_input) ==
    LET rows == order_by_priority(table, regex_rows(table, tool_name))
        is_review(id) == row_matched(table[id], tool_input) /\ needs_review(table[id])
        is_direct(id) == row_matched(table[id], tool_input) /\ ~needs_review(table[id])
        llm_review_needed ==
            LET ids == SelectSeq(rows, is_review)
            IN  [i \in 1..Len(ids) |-> review_entry(table, ids[i])]
        matched_rules ==
            LET ids == SelectSeq(rows, is_direct)
            IN  [i \in 1..Len(ids) |-> matched_entry(table, ids[i])]
        blocks == Filter(matched_rules, "block")
        warns == Filter(matched_rules, "warn")
        messages == [i \in 1..Len(blocks) |-> message_line("BLOCK", blocks[i])]
                    \o [i \in 1..Len(warns) |-> message_line("WARN", warns[i])]
    IN  IF \E i \in 1..Len(rows) : row_raises(table[rows[i]])
        THEN [raised |-> TRUE, passed |-> FALSE, reason |-> <<>>, action |-> "None",
              llm_reviews |-> <<>>, matched_rules |-> <<>>]
        ELSE IF matched_rules # <<>>
        THEN [raised |-> FALSE, passed |-> FALSE, reason |-> messages,
              action |-> combined_action(blocks, warns),
              llm_reviews |-> llm_review_needed, matched_rules |-> matched_rules]
        ELSE [raised |-> FALSE, passed |-> TRUE, reason |-> <<>>, action |-> "None",
              llm_reviews |-> llm_review_needed, matched_rules |-> <<>>]

\* ------------------------------------------------ Semantic Candidate Finder
\* Vector distances reported by the KNN search, in tenths.
Distances == {0, 5, 9}

\* skip = {'a', 'an', 'the', 'for', 'to', 'of', 'in', 'on', 'with', 'use',
\*         'always', 'never'}
skip ==
    { <<"a">>, <<"a","n">>, <<"t","h","e">>, <<"f","o","r">>, <<"t","o">>,
      <<"o","f">>, <<"i","n">>, <<"o","n">>, <<"w","i","t","h">>,
      <<"u","s","e">>, <<"a","l","w","a","y","s">>, <<"n","e","v","e","r">> }

\* WHERE active = 1 AND type = 'semantic' AND (tool IS NULL OR tool = ?)
semantic_rows(table, tool_name) ==
    {id \in DOMAIN table :
        /\ table[id].type = "semantic"
        /\ table[id].active = 1
        /\ table[id].tool \in {"NULL", tool_name}}

\* if desc_keywords & input_words
keyword_match(row, tool_input) ==
    (Words(LowerStr(row.description)) \ skip) \cap Words(LowerStr(tool_input)) # {}

\* The ids of S in increasing order of key (ties in rowid order).
RECURSIVE order_by(_, _)
order_by(key, S) ==
    IF S = {} THEN <<>>
    ELSE LET first == CHOOSE i \in S : \A j \in S :
                          key[i] < key[j] \/ (key[i] = key[j] /\ i <= j)
         IN  <<first>> \o order_by(key, S \ {first})

\* The first n entries of q: q[:n].
Take(q, n) == SubSeq(q, 1, IF Len(q) < n THEN Len(q) ELSE n)

\* The dict find_semantic_rules stores for a rule (no 'hard' key).
semantic_entry(table, id, distance, match_type) ==
    [id |-> id, description |-> table[id].description,
     solution |-> table[id].solution, action |-> table[id].action,
     distance |-> distance, match_type |-> match_type]

\* find_semantic_rules: keyword matches first (in rowid order), then the rows
\* of the KNN search (rule_embeddings MATCH ? AND k = top_k, joined with the
\* rules that are active, semantic and in scope) that are not yet present, in
\* order of distance. dist gives the distance of each stored embedding to the
\* embedding of "<tool>: <input>".
find_semantic_rules(table, embeddings, tool_name, tool_input, dist, top_k) ==
    LET scoped == semantic_rows(table, tool_name)
        keyword_ids == {id \in scoped : keyword_match(table[id], tool_input)}
        keyword_seq == order_by([id \in keyword_ids |-> 0], keyword_ids)
        knn == Take(order_by(dist, DOMAIN embeddings), top_k)
        vector_seq == SelectSeq(knn, LAMBDA id : id \in scoped /\ id \notin keyword_ids)
    IN  [i \in 1..Len(keyword_seq) |->
            semantic_entry(table, keyword_seq[i], KeywordDistance, "keyword")]
        \o [i \in 1..Len(vector_seq) |->
            semantic_entry(table, vector_seq[i], dist[vector_seq[i]], "vector")]

\* r.get('match_type') == 'keyword' or (r['distance'] and r['distance'] < 0.8)
is_close_any_distance(r) == TRUE

is_close(r) ==
    \/ r.match_type = "keyword"
    \/ (r.distance # 0 /\ r.distance < CloseDistance)

\* --------------------------------------------------------- Policy Evaluator
\* r.get(key, default) on a dict
Get(r, key, default) == IF key \in DOMAIN r THEN r[key] ELSE default

\* The entry check_with_agent appends for a review-deferred pattern rule.
llm_entry_regex(r) ==
    [id |-> r.id, description |-> r.description, action |-> r.action,
     hard |-> Get(r, "hard", 0), source |-> "regex+llm"]

\* The entry check_with_agent appends for a close semantic rule.
llm_entry_semantic(r) ==
    [id |-> r.id, description |-> r.description, action |-> r.action,
     solution |-> Get(r, "solution", ""), hard |-> Get(r, "hard", 0),
     source |-> "semantic"]

\* Step 3 of check_with_agent: all rules needing LLM review in one list.
combine_for_llm_unfiltered(llm_reviews, semantic) ==
    [i \in 1..Len(llm_reviews) |-> llm_entry_regex(llm_reviews[i])]
    \o [i \in 1..Len(semantic) |-> llm_entry_semantic(semantic[i])]

combine_for_llm(llm_reviews, semantic) ==
    LET close_semantic == SelectSeq(semantic, is_close)
    IN  [i \in 1..Len(llm_reviews) |-> llm_entry_regex(llm_reviews[i])]
        \o [i \in 1..Len(close_semantic) |-> llm_entry_semantic(close_semantic[i])]

\* hard_label = "HARD" if r.get('hard') else "SOFT"
hard_label(r) == IF Get(r, "hard", 0) # 0 THEN "HARD" ELSE "SOFT"

\* The prompt check_rules_with_llm builds: one line per rule of rules[:5]
\* and the justification when one is given (justification[:200] keeps the
\* whole of the short justifications of the model).
build_llm_prompt(rule_list, justification) ==
    LET capped == Take(rule_list, LlmRuleCap)
    IN  [rules_text |-> [i \in 1..Len(capped) |->
                            [label |-> hard_label(capped[i]), id |-> capped[i].id,
                             action |-> capped[i].action,
                             solution |-> Get(capped[i], "solution", "")]],
         justification |-> justification]

\* ------------------------------------------------------- Arbitration Stage
\* SYSTEM_PROMPT: 'If justification starts with "OVERRIDE:" + valid reason'
is_override(justification) ==
    /\ Len(justification) >= 2
    /\ justification[1] = OverrideToken

\* The RuleDecision of an LLM that follows SYSTEM_PROMPT on the prompt it
\* receives: judged holds the ids of the rules it finds actually violated;
\* a violated HARD rule is always enforced, a violated SOFT rule is enforced
\* unless the justification is an override.
llm_policy(prompt, judged) ==
    LET lines == prompt.rules_text
        enforced(l) == /\ l.id \in judged
                       /\ (l.label = "HARD" \/ ~is_override(prompt.justification))
        violations == SelectSeq(lines, enforced)
    IN  IF violations = <<>>
        THEN [approved |-> TRUE, action |-> "allow", comment |-> <<>>]
        ELSE [approved |-> FALSE,
              action |-> IF Filter(violations, "block") # <<>> THEN "block" ELSE "warn",
              comment |-> [i \in 1..Len(violations) |->
                              [tag |-> "LLM", id |-> violations[i].id,
                               solution |-> violations[i].solution]]]

\* What agent.run returns, a RuleDecision(approved, action, comment): action
\* and comment as SYSTEM_PROMPT asks; approved, which SYSTEM_PROMPT does not
\* mention and nothing ties to action, as the LLM sets it.
llm_output(prompt, judged, approved) ==
    [llm_policy(prompt, judged) EXCEPT !.approved = approved]

\* ------------------------------------------------------------- embeddings
\* SELECT r.id ... LEFT JOIN rule_embeddings ... WHERE re.rule_id IS NULL
\* AND r.active = 1, in rowid order.
rules_without_embedding(table, embeddings) ==
    LET ids == {id \in DOMAIN table : table[id].active = 1 /\ id \notin DOMAIN embeddings}
    IN  order_by([id \in ids |-> 0], ids)

\* ensure_rule_embedding for the first n rows of todo, none of which has an
\* embedding yet: each is embedded from the text passed (the description).
embed_rows(table, embeddings, todo, n) ==
    LET done == {todo[i] : i \in 1..n}
    IN  [id \in DOMAIN embeddings \cup done |->
            IF id \in DOMAIN embeddings THEN embeddings[id] ELSE table[id].description]

\* ------------------------------------------------------------ entrypoints
NoReq == [tool_name |-> "none", tool_input |-> <<>>, justification |-> <<>>]
NoRegex == [raised |-> FALSE, passed |-> TRUE, reason |-> <<>>, action |-> "None",
            llm_reviews |-> <<>>, matched_rules |-> <<>>]
NoPrompt == [rules_text |-> <<>>, justification |-> <<>>]
NoDecision == [approved |-> FALSE, action |-> "none", comment |-> <<>>]
NoReport == [code |-> -1, message |-> "none", explanation |-> <<>>]
NoExit == [script |-> NoReport, hook |-> NoReport]
NoTrace == [decision |-> "none", stored |-> FALSE, writes |-> 0]
NoOp == [op |-> "none", id |-> 0, calls |-> 0, raised |-> FALSE]
NoStats == [created |-> 0, updated |-> 0, deleted |-> 0]
NoLearnTrace == [written |-> FALSE, stored |-> FALSE, stats |-> NoStats, writes |-> 0]
NoLearn == [pc |-> "idle", session_id |-> 0, changes |-> <<>>, next |-> 1, results |-> <<>>, stats |-> NoStats, raised |-> FALSE, trace |-> NoLearnTrace]
NoFmt == [pc |-> "none", transcript |-> <<>>, max_entries |-> 0, max_chars |-> 0, lines |-> <<>>, out |-> <<>>]
NoEnsure == [pc |-> "none", rule_id |-> 0, text |-> <<>>, cause |-> "none"]
NoRace == [sync |-> "idle", rows |-> <<>>, handler |-> "none", ensure |-> [p \in {"sync", "learn"} |-> NoEnsure]]

\* The message main leaves for the caller and its exit code.
\* scripts/check_rules.py: the except branch and the branches on action.
script_exit(error, d) ==
    IF error # "none"
    THEN [code |-> 2, message |-> "BLOCKED: Rule check error",
          explanation |-> <<[tag |-> error, id |-> 0, solution |-> ""]>>]
    ELSE IF d.action = "block"
    THEN [code |-> 2, message |-> "BLOCKED", explanation |-> d.comment]
    ELSE IF d.action = "warn"
    THEN [code |-> 2, message |-> "SUGGESTION", explanation |-> d.comment]
    ELSE [code |-> 0, message |-> "none", explanation |-> <<>>]

\* causeway/hooks/check_rules.py: the except branch, the allowed branch and
\* the permissionDecision "deny" branches.
hook_exit_ignores_error(error, d) ==
    IF d.approved \/ d.action \notin {"block", "warn"}
    THEN [code |-> 0, message |-> "none", explanation |-> <<>>]
    ELSE [code |-> 0, message |-> "deny: BLOCKED", explanation |-> d.comment]

hook_exit(error, d) ==
    IF error # "none"
    THEN [code |-> 2, message |-> "BLOCKED: Rule check error",
          explanation |-> <<[tag |-> error, id |-> 0, solution |-> ""]>>]
    ELSE IF d.approved
    THEN [code |-> 0, message |-> "none", explanation |-> <<>>]
    ELSE IF d.action = "block"
    THEN [code |-> 0, message |-> "deny: BLOCKED", explanation |-> d.comment]
    ELSE IF d.action = "warn"
    THEN [code |-> 0, message |-> "deny: FLAGGED", explanation |-> d.comment]
    ELSE [code |-> 0, message |-> "none", explanation |-> <<>>]

\* The host runs the tool call when the hook exits 0 without a denial.
proceeds(e) == e.code = 0 /\ e.message = "none"

\* ------------------------------------------------------ format_transcript
\* Longest transcript handed to format_transcript.
MaxTranscript == 3

\* A transcript entry: its type and its message (role, content). A content
\* is a string (str), a list of items (list) or any other value (other, the
\* text str() gives for it).
Entry(type, message) == [type |-> type, message |-> message]

\* The entries transcripts are made of: a user prompt, an assistant turn
\* with text, a tool call and a tool result, a system entry, a user entry
\* that only carries a tool result, and an assistant message without role.
TranscriptEntries ==
    { Entry("user", [role |-> "user", content |-> [str |-> <<"a">>]]),
      Entry("assistant",
            [role |-> "assistant",
             content |-> [list |-> << [type |-> "text", text |-> <<"b">>],
                                      [type |-> "tool_use", name |-> <<"B">>,
                                       input |-> <<"i">>],
                                      [type |-> "tool_result", content |-> <<"P">>] >>]]),
      Entry("system", [role |-> "system", content |-> [str |-> <<"s">>]]),
      Entry("user",
            [role |-> "user",
             content |-> [list |-> << [type |-> "tool_result", content |-> <<"P">>] >>]]),
      Entry("assistant", [content |-> [other |-> <<"7">>]]) }

\* All transcripts of at most MaxTranscript entries.
Transcripts == UNION {[1..n -> TranscriptEntries] : n \in 0..MaxTranscript}

\* The values passed for max_entries and max_chars: the defaults and small
\* ones that cut the transcript.
MaxEntriesArgs == {1, 2, 30}
MaxCharsArgs == {10, 8000}

\* role.upper()
UpperRole(role) ==
    CASE role = "user" -> <<"U","S","E","R">>
      [] role = "assistant" -> <<"A","S","S","I","S","T","A","N","T">>
      [] role = "system" -> <<"S","Y","S","T","E","M">>

\* sep.join(parts)
RECURSIVE JoinWith(_, _)
JoinWith(parts, sep) ==
    IF parts = <<>> THEN <<>>
    ELSE IF Len(parts) = 1 THEN parts[1]
    ELSE parts[1] \o sep \o JoinWith(Tail(parts), sep)

\* text.strip() is empty
IsBlank(text) == \A i \in 1..Len(text) : text[i] \in {" ", "\n"}

\* recent = transcript[-max_entries:] if len(transcript) > max_entries else
\* transcript, for max_entries >= 1.
recent_entries(transcript, max_entries) ==
    IF Len(transcript) > max_entries
    THEN SubSeq(transcript, Len(transcript) - max_entries + 1, Len(transcript))
    ELSE transcript

\* The loop over the items with a branch that appends the content of a
\* tool_result item.
item_part_keeps_results(item) ==
    IF item.type = "text" THEN <<Take(item.text, 300)>>
    ELSE IF item.type = "tool_use"
    THEN << <<"[","T","o","o","l",":"," ">> \o item.name \o <<"]">> >>
    ELSE IF item.type = "tool_result" THEN <<item.content>>
    ELSE <<>>

\* What one item of a content list appends to parts: the text of a text
\* item cut at 300, "[Tool: <name>]" for a tool_use item, nothing for a
\* tool_result item or any other item.
item_part(item) ==
    IF item.type = "text" THEN <<Take(item.text, 300)>>
    ELSE IF item.type = "tool_use"
    THEN << <<"[","T","o","o","l",":"," ">> \o item.name \o <<"]">> >>
    ELSE <<>>

\* parts after the loop over a content list.
RECURSIVE content_parts(_)
content_parts(items) ==
    IF items = <<>> THEN <<>>
    ELSE item_part(Head(items)) \o content_parts(Tail(items))

\* text of an entry: content[:500] for a string, " ".join(parts) for a
\* list, str(content)[:300] otherwise; content defaults to "".
entry_text(entry) ==
    LET content == Get(entry.message, "content", [str |-> <<>>])
    IN  IF "str" \in DOMAIN content THEN Take(content.str, 500)
        ELSE IF "list" \in DOMAIN content
        THEN JoinWith(content_parts(content.list), <<" ">>)
        ELSE Take(content.other, 300)

\* line = f"{role.upper()}: {text[:400]}", role = msg.get("role", entry_type)
entry_line(entry) ==
    UpperRole(Get(entry.message, "role", entry.type)) \o <<":", " ">>
    \o Take(entry_text(entry), 400)

\* The loop of format_transcript from entry i on: entries that are neither
\* user nor assistant and entries with blank text are skipped; the loop
\* breaks at the first line that would exceed max_chars.
RECURSIVE format_loop(_, _, _, _, _)
format_loop(recent, i, lines, total_chars, max_chars) ==
    IF i > Len(recent) THEN lines
    ELSE IF recent[i].type \notin {"user", "assistant"}
    THEN format_loop(recent, i + 1, lines, total_chars, max_chars)
    ELSE IF IsBlank(entry_text(recent[i]))
    THEN format_loop(recent, i + 1, lines, total_chars, max_chars)
    ELSE LET line == entry_line(recent[i])
         IN  IF total_chars + Len(line) > max_chars THEN lines
             ELSE format_loop(recent, i + 1, Append(lines, line),
                              total_chars + Len(line), max_chars)

\* lines when format_transcript returns.
format_lines(transcript, max_entries, max_chars) ==
    format_loop(recent_entries(transcript, max_entries), 1, <<>>, 0, max_chars)

\* format_transcript: "\n\n".join(lines)
format_transcript(transcript, max_entries, max_chars) ==
    JoinWith(format_lines(transcript, max_entries, max_chars), <<"\n", "\n">>)


\* ---------------------------------------------------------------- actions
Init ==
    /\ rules = <<>>
    /\ rule_embeddings = <<>>
    /\ pc = "idle"
    /\ req = NoReq
    /\ regex = NoRegex
    /\ semantic_rules = <<>>
    /\ all_rules_for_llm = <<>>
    /\ llm_prompt = NoPrompt
    /\ llm_judged = {}
    /\ decision = NoDecision
    /\ raised = "none"
    /\ exit = NoExit
    /\ trace = NoTrace
    /\ embed_calls = 0
    /\ llm_calls = 0
    /\ last_op = NoOp
    /\ assigned_ids = {}
    /\ learn = NoLearn
    /\ fmt = NoFmt
    /\ race = NoRace

\* main with a log_trace that lets the failure of its write escape: the
\* process ends with an uncaught exception.
main_finish_trace_raises(d, error) ==
    /\ decision' = d
    /\ raised' = error
    /\ \E stored \in BOOLEAN :
          /\ trace' = [decision |-> IF error # "none" THEN "error" ELSE d.action,
                       stored |-> stored, writes |-> 1]
          /\ exit' = IF stored
                     THEN [script |-> script_exit(error, d), hook |-> hook_exit(error, d)]
                     ELSE [script |-> [code |-> 1, message |-> "none", explanation |-> <<>>],
                           hook |-> [code |-> 1, message |-> "none", explanation |-> <<>>]]
    /\ pc' = "exit"

\* main from the return (or the exception) of check_rules_async to the end
\* of the process: log_trace, whose failing write is swallowed, then the
\* report to the caller. The two entrypoints run the same check_rules_async;
\* exit holds the report of each.
main_finish(d, error) ==
    /\ decision' = d
    /\ raised' = error
    /\ \E stored \in BOOLEAN :
          trace' = [decision |-> IF error # "none" THEN "error" ELSE d.action,
                    stored |-> stored, writes |-> 1]
    /\ exit' = [script |-> script_exit(error, d), hook |-> hook_exit(error, d)]
    /\ pc' = "exit"

\* INSERT INTO rules (...) VALUES (...): a row is added under the next rowid.
InsertRule ==
    /\ pc = "idle"
    /\ Cardinality(DOMAIN rules) < MaxRules
    /\ \E row \in RuleTemplates :
          rules' = insert_row(rules, next_rowid(rules), row)
    /\ assigned_ids' = assigned_ids \cup {next_rowid(rules)}
    /\ UNCHANGED <<rule_embeddings, pc, req, last_op>>
    /\ UNCHANGED eval_vars
    /\ UNCHANGED <<learn, fmt, race>>

\* main reads the hook input: tool name, tool input as text, justification.
\* An evaluation is not interleaved with the loop of a learning run.
main_start ==
    /\ pc = "idle"
    /\ learn.pc \in {"idle", "done"}
    /\ \E t \in Tools, i \in Inputs, j \in Justifications :
          req' = [tool_name |-> t, tool_input |-> i, justification |-> j]
    /\ pc' = "sync"
    /\ UNCHANGED store_vars
    /\ UNCHANGED eval_vars
    /\ UNCHANGED store_hist
    /\ UNCHANGED <<learn, fmt, race>>

\* check_rules_async: sync_all_rule_embeddings embeds every active rule that
\* has no embedding.
sync_all_rule_embeddings ==
    /\ pc = "sync"
    /\ LET todo == rules_without_embedding(rules, rule_embeddings)
       IN  rule_embeddings' = embed_rows(rules, rule_embeddings, todo, Len(todo))
    /\ pc' = "pattern"
    /\ UNCHANGED <<rules, req, regex, semantic_rules, all_rules_for_llm, llm_prompt,
                   llm_judged, decision, raised, exit, trace, embed_calls, llm_calls>>
    /\ UNCHANGED store_hist
    /\ UNCHANGED <<learn, fmt, race>>

\* generate_embedding raises for the n-th rule without an embedding; the
\* rules before it keep the embeddings already committed.
sync_all_rule_embeddings_raises ==
    /\ pc = "sync"
    /\ LET todo == rules_without_embedding(rules, rule_embeddings)
       IN  \E n \in 1..Len(todo) :
              rule_embeddings' = embed_rows(rules, rule_embeddings, todo, n - 1)
    /\ main_finish(NoDecision, "embedding error")
    /\ UNCHANGED <<rules, req, regex, semantic_rules, all_rules_for_llm, llm_prompt,
                   llm_judged, embed_calls, llm_calls>>
    /\ UNCHANGED store_hist
    /\ UNCHANGED <<learn, fmt, race>>

\* check_with_agent, step 1: check_regex_rules raises re.error.
check_regex_rules_raises ==
    /\ pc = "pattern"
    /\ LET r == check_regex_rules(rules, req.tool_name, req.tool_input)
       IN  /\ r.raised
           /\ regex' = r
    /\ main_finish(NoDecision, "re.error")
    /\ UNCHANGED <<rules, rule_embeddings, req, semantic_rules, all_rules_for_llm,
                   llm_prompt, llm_judged, embed_calls, llm_calls>>
    /\ UNCHANGED store_hist
    /\ UNCHANGED <<learn, fmt, race>>

\* check_with_agent, step 1: a direct match; the combined result is returned
\* (action or "block", reason or "Blocked").
check_regex_rules_fails_goes_on ==
    /\ pc = "pattern"
    /\ LET r == check_regex_rules(rules, req.tool_name, req.tool_input)
       IN  /\ ~r.raised
           /\ ~r.passed
           /\ regex' = r
    /\ pc' = "semantic"
    /\ UNCHANGED <<rules, rule_embeddings, req, semantic_rules, all_rules_for_llm,
                   llm_prompt, llm_judged, decision, raised, exit, trace, embed_calls,
                   llm_calls>>
    /\ UNCHANGED store_hist
    /\ UNCHANGED <<learn, fmt, race>>

check_regex_rules_fails ==
    /\ pc = "pattern"
    /\ LET r == check_regex_rules(rules, req.tool_name, req.tool_input)
       IN  /\ ~r.raised
           /\ ~r.passed
           /\ regex' = r
           /\ main_finish([approved |-> FALSE,
                           action |-> IF r.action # "None" THEN r.action ELSE "block",
                           comment |-> IF r.reason # <<>> THEN r.reason
                                       ELSE <<[tag |-> "Blocked", id |-> 0, solution |-> ""]>>],
                          "none")
    /\ UNCHANGED <<rules, rule_embeddings, req, semantic_rules, all_rules_for_llm,
                   llm_prompt, llm_judged, embed_calls, llm_calls>>
    /\ UNCHANGED store_hist
    /\ UNCHANGED <<learn, fmt, race>>

\* check_with_agent, step 1: no direct match.
check_regex_rules_passes ==
    /\ pc = "pattern"
    /\ LET r == check_regex_rules(rules, req.tool_name, req.tool_input)
       IN  /\ ~r.raised
           /\ r.passed
           /\ regex' = r
    /\ pc' = "semantic"
    /\ UNCHANGED <<rules, rule_embeddings, req, semantic_rules, all_rules_for_llm,
                   llm_prompt, llm_judged, decision, raised, exit, trace, embed_calls,
                   llm_calls>>
    /\ UNCHANGED store_hist
    /\ UNCHANGED <<learn, fmt, race>>

\* check_with_agent, step 2: generate_embedding raises in find_semantic_rules.
find_semantic_rules_raises ==
    /\ pc = "semantic"
    /\ embed_calls' = embed_calls + 1
    /\ main_finish(NoDecision, "embedding error")
    /\ UNCHANGED <<rules, rule_embeddings, req, regex, semantic_rules, all_rules_for_llm,
                   llm_prompt, llm_judged, llm_calls>>
    /\ UNCHANGED store_hist
    /\ UNCHANGED <<learn, fmt, race>>

\* check_with_agent, steps 2 and 3: find_semantic_rules returns and the
\* rules needing review are combined; with none, the decision is allow.
find_semantic_rules_returns ==
    /\ pc = "semantic"
    /\ embed_calls' = embed_calls + 1
    /\ \E dist \in [DOMAIN rule_embeddings -> Distances] :
          LET found == find_semantic_rules(rules, rule_embeddings, req.tool_name,
                                           req.tool_input, dist, TopK)
              combined == combine_for_llm(regex.llm_reviews, found)
          IN  /\ semantic_rules' = found
              /\ all_rules_for_llm' = combined
              /\ IF combined = <<>>
                 THEN main_finish([approved |-> TRUE, action |-> "allow",
                                   comment |-> <<[tag |-> "No rules to check", id |-> 0,
                                                  solution |-> ""]>>], "none")
                 ELSE /\ pc' = "arbitrate"
                      /\ UNCHANGED <<decision, raised, exit, trace>>
    /\ UNCHANGED <<rules, rule_embeddings, req, regex, llm_prompt, llm_judged, llm_calls>>
    /\ UNCHANGED store_hist
    /\ UNCHANGED <<learn, fmt, race>>

\* check_rules_with_llm: agent.run returns the decision of the LLM, which
\* check_with_agent returns as it is.
check_rules_with_llm ==
    /\ pc = "arbitrate"
    /\ LET prompt == build_llm_prompt(all_rules_for_llm, req.justification)
           sent == {prompt.rules_text[i].id : i \in 1..Len(prompt.rules_text)}
       IN  /\ llm_prompt' = prompt
           /\ \E judged \in SUBSET sent, approved \in BOOLEAN :
                 /\ llm_judged' = judged
                 /\ main_finish(llm_output(prompt, judged, approved), "none")
    /\ llm_calls' = llm_calls + 1
    /\ UNCHANGED <<rules, rule_embeddings, req, regex, semantic_rules, all_rules_for_llm,
                   embed_calls>>
    /\ UNCHANGED store_hist
    /\ UNCHANGED <<learn, fmt, race>>

\* check_rules_with_llm: agent.run raises (provider error, timeout, output
\* that does not validate).
check_rules_with_llm_raises ==
    /\ pc = "arbitrate"
    /\ llm_prompt' = build_llm_prompt(all_rules_for_llm, req.justification)
    /\ llm_calls' = llm_calls + 1
    /\ main_finish(NoDecision, "llm error")
    /\ UNCHANGED <<rules, rule_embeddings, req, regex, semantic_rules, all_rules_for_llm,
                   llm_judged, embed_calls>>
    /\ UNCHANGED store_hist
    /\ UNCHANGED <<learn, fmt, race>>

\* The hook process ends; the next tool call starts a new one.
main_exits ==
    /\ pc = "exit"
    /\ pc' = "idle"
    /\ req' = NoReq
    /\ regex' = NoRegex
    /\ semantic_rules' = <<>>
    /\ all_rules_for_llm' = <<>>
    /\ llm_prompt' = NoPrompt
    /\ llm_judged' = {}
    /\ decision' = NoDecision
    /\ raised' = "none"
    /\ exit' = NoExit
    /\ trace' = NoTrace
    /\ embed_calls' = 0
    /\ llm_calls' = 0
    /\ UNCHANGED store_vars
    /\ UNCHANGED store_hist
    /\ UNCHANGED <<learn, fmt, race>>

Next ==
    \/ InsertRule
    \/ main_start
    \/ sync_all_rule_embeddings
    \/ sync_all_rule_embeddings_raises
    \/ check_regex_rules_raises
    \/ check_regex_rules_fails
    \/ check_regex_rules_passes
    \/ find_semantic_rules_raises
    \/ find_semantic_rules_returns
    \/ check_rules_with_llm
    \/ check_rules_with_llm_raises
    \/ main_exits

Spec == Init /\ [][Next]_vars

\* ------------------------------------------------------ rule store handlers
\* Arguments of add_rule: the handler sets priority 0 and leaves active and
\* hard at their column defaults (1 and 0).
AddRuleArgs ==
    { Rule("semantic", <<>>, NoPatterns, <<"n","o"," ","r","m">>, "fix", "NULL",
           "block", 1, 0, 0, 0),
      Rule("regex", <<"r","m">>, NoPatterns, <<"x">>, "", "Bash",
           "warn", 1, 0, 1, 0) }

\* embed_text = description (+ " Problem: " + problem)(+ " Solution: " +
\* solution), each part when the column is set.
embed_text(row) ==
    row.description
    \o (IF row.problem # "" THEN <<" Problem: ", row.problem>> ELSE <<>>)
    \o (IF row.solution # "" THEN <<" Solution: ", row.solution>> ELSE <<>>)

\* ensure_rule_embedding: if a row exists for rule_id, return; otherwise
\* generate_embedding(description) and INSERT INTO rule_embeddings.
\* calls is the number of generate_embedding calls made.
ensure_rule_embedding_always(embeddings, rule_id, text) ==
    [embeddings |-> insert_row(embeddings, rule_id, text), calls |-> 1]

ensure_rule_embedding(embeddings, rule_id, text) ==
    IF rule_id \in DOMAIN embeddings
    THEN [embeddings |-> embeddings, calls |-> 0]
    ELSE [embeddings |-> insert_row(embeddings, rule_id, text), calls |-> 1]

\* The texts callers pass for a rule: its description (the sync) or its
\* embed_text (add_rule, update_rule).
EnsureTexts(row) == {row.description, embed_text(row)}

\* call_tool("add_rule"): INSERT, commit, rule_id = cursor.lastrowid, then
\* ensure_rule_embedding(rule_id, embed_text).
add_rule ==
    /\ pc = "idle"
    /\ Cardinality(DOMAIN rules) < MaxRules
    /\ next_rowid(rules) <= MaxId
    /\ \E row \in AddRuleArgs :
          LET rule_id == next_rowid(rules)
              ensured == ensure_rule_embedding(rule_embeddings, rule_id, embed_text(row))
          IN  /\ rules' = insert_row(rules, rule_id, row)
              /\ rule_embeddings' = ensured.embeddings
              /\ last_op' = [op |-> "add_rule", id |-> rule_id, calls |-> ensured.calls,
                             raised |-> FALSE]
              /\ assigned_ids' = assigned_ids \cup {rule_id}
    /\ UNCHANGED <<pc, req>>
    /\ UNCHANGED eval_vars
    /\ UNCHANGED <<learn, fmt, race>>

\* call_tool("add_rule") when generate_embedding raises: the row is already
\* committed and stays without an embedding.
add_rule_raises ==
    /\ pc = "idle"
    /\ Cardinality(DOMAIN rules) < MaxRules
    /\ next_rowid(rules) <= MaxId
    /\ next_rowid(rules) \notin DOMAIN rule_embeddings
    /\ \E row \in AddRuleArgs :
          rules' = insert_row(rules, next_rowid(rules), row)
    /\ last_op' = [op |-> "add_rule", id |-> next_rowid(rules), calls |-> 1,
                   raised |-> TRUE]
    /\ assigned_ids' = assigned_ids \cup {next_rowid(rules)}
    /\ UNCHANGED <<rule_embeddings, pc, req>>
    /\ UNCHANGED eval_vars
    /\ UNCHANGED <<learn, fmt, race>>

\* call_tool("delete_rule"): DELETE FROM rules WHERE id = ?; DELETE FROM
\* rule_embeddings WHERE rule_id = ?; commit.
delete_rule_keeps_embedding(rule_id) ==
    /\ pc = "idle"
    /\ rules' = delete_row(rules, rule_id)
    /\ last_op' = [op |-> "delete_rule", id |-> rule_id, calls |-> 0, raised |-> FALSE]
    /\ UNCHANGED <<rule_embeddings, pc, req, assigned_ids>>
    /\ UNCHANGED eval_vars
    /\ UNCHANGED <<learn, fmt, race>>

delete_rule(rule_id) ==
    /\ pc = "idle"
    /\ rules' = delete_row(rules, rule_id)
    /\ rule_embeddings' = delete_row(rule_embeddings, rule_id)
    /\ last_op' = [op |-> "delete_rule", id |-> rule_id, calls |-> 0, raised |-> FALSE]
    /\ UNCHANGED <<pc, req, assigned_ids>>
    /\ UNCHANGED eval_vars
    /\ UNCHANGED <<learn, fmt, race>>

\* A call of ensure_rule_embedding for a rule of the table returns.
ensure_rule_embedding_returns ==
    /\ pc = "idle"
    /\ \E rule_id \in DOMAIN rules :
          \E text \in EnsureTexts(rules[rule_id]) :
             LET ensured == ensure_rule_embedding(rule_embeddings, rule_id, text)
             IN  /\ rule_embeddings' = ensured.embeddings
                 /\ last_op' = [op |-> "ensure_rule_embedding", id |-> rule_id,
                                calls |-> ensured.calls, raised |-> FALSE]
    /\ UNCHANGED <<rules, pc, req, assigned_ids>>
    /\ UNCHANGED eval_vars
    /\ UNCHANGED <<learn, fmt, race>>

\* A call of ensure_rule_embedding in which generate_embedding raises.
ensure_rule_embedding_raises ==
    /\ pc = "idle"
    /\ \E rule_id \in DOMAIN rules \ DOMAIN rule_embeddings :
          last_op' = [op |-> "ensure_rule_embedding", id |-> rule_id, calls |-> 1,
                      raised |-> TRUE]
    /\ UNCHANGED <<rules, rule_embeddings, pc, req, assigned_ids>>
    /\ UNCHANGED eval_vars
    /\ UNCHANGED <<learn, fmt, race>>

\* The rule store under the calls of its handlers.
StoreNext ==
    \/ add_rule
    \/ add_rule_raises
    \/ \E rule_id \in 1..MaxId : delete_rule(rule_id)
    \/ ensure_rule_embedding_returns
    \/ ensure_rule_embedding_raises

StoreSpec == Init /\ [][StoreNext]_vars

\* --------------------------------------------------------- Learning Applier
\* Two dicts merged, the keys of b winning.
Merge(a, b) == [k \in DOMAIN a \cup DOMAIN b |-> IF k \in DOMAIN b THEN b[k] ELSE a[k]]

\* The items of a dict whose key is in keys.
Restrict(r, keys) == [k \in DOMAIN r \cap keys |-> r[k]]

\* The row call_tool("add_rule") inserts for its arguments: type defaults
\* to semantic, action to block, priority is 0, active and hard keep their
\* column defaults.
add_rule_row(args) ==
    [type |-> Get(args, "type", "semantic"), pattern |-> Get(args, "pattern", <<>>),
     patterns |-> Get(args, "patterns", NoPatterns), description |-> args.description,
     problem |-> Get(args, "problem", ""), solution |-> Get(args, "solution", ""),
     tool |-> Get(args, "tool", "NULL"), action |-> Get(args, "action", "block"),
     active |-> 1, priority |-> 0,
     llm_review |-> IF Get(args, "llm_review", FALSE) THEN 1 ELSE 0, hard |-> 0,
     source_session_id |-> Get(args, "source_session_id", 0)]

\* The columns call_tool("update_rule") patches (prompt is not modelled).
UpdatableColumns ==
    {"pattern", "patterns", "description", "problem", "solution", "action", "llm_review"}

\* An update that writes every text column, an argument left out being
\* stored as the empty text.
update_row_overwrites(row, args) ==
    [f \in DOMAIN row |->
        IF f \in UpdatableColumns \cap DOMAIN args
        THEN IF f = "llm_review" THEN (IF args[f] THEN 1 ELSE 0) ELSE args[f]
        ELSE IF f \in {"problem", "solution"} THEN "" ELSE row[f]]

\* The row after the UPDATEs of call_tool("update_rule"): one UPDATE per
\* argument that is not None.
update_row(row, args) ==
    [f \in DOMAIN row |->
        IF f \in UpdatableColumns \cap DOMAIN args
        THEN IF f = "llm_review" THEN (IF args[f] THEN 1 ELSE 0) ELSE args[f]
        ELSE row[f]]

\* if description is not None or problem is not None or solution is not None
text_supplied(args) == DOMAIN args \cap {"description", "problem", "solution"} # {}

\* call_tool("add_rule") on a store; fails tells whether generate_embedding
\* raises when it is called. The INSERT is committed before the embedding.
call_add_rule(table, embeddings, args, fails) ==
    LET rule_id == next_rowid(table)
        row == add_rule_row(args)
        ensured == ensure_rule_embedding(embeddings, rule_id, embed_text(row))
        raises == fails /\ ensured.calls = 1
    IN  [rules |-> insert_row(table, rule_id, row),
         rule_embeddings |-> IF raises THEN embeddings ELSE ensured.embeddings,
         op |-> [op |-> "add_rule", id |-> rule_id, calls |-> ensured.calls,
                 raised |-> raises],
         text |-> IF raises THEN "Error" ELSE "Rule added"]

\* update_rule without its DELETE FROM rule_embeddings: the embedding that
\* exists makes ensure_rule_embedding return at once.
call_update_rule_keeps_embedding(table, embeddings, args, fails) ==
    IF args.id \notin DOMAIN table
    THEN [rules |-> table, rule_embeddings |-> embeddings,
          op |-> [op |-> "update_rule", id |-> args.id, calls |-> 0, raised |-> FALSE],
          text |-> "not found"]
    ELSE LET row == update_row(table[args.id], args)
             updated == insert_row(table, args.id, row)
             ensured == ensure_rule_embedding(embeddings, args.id, embed_text(row))
             raises == fails /\ ensured.calls = 1
         IN  IF ~text_supplied(args)
             THEN [rules |-> updated, rule_embeddings |-> embeddings,
                   op |-> [op |-> "update_rule", id |-> args.id, calls |-> 0,
                           raised |-> FALSE],
                   text |-> "updated"]
             ELSE [rules |-> updated,
                   rule_embeddings |-> IF raises THEN embeddings ELSE ensured.embeddings,
                   op |-> [op |-> "update_rule", id |-> args.id, calls |-> ensured.calls,
                           raised |-> raises],
                   text |-> IF raises THEN "Error" ELSE "updated"]

\* call_tool("update_rule") on a store: not found, or the UPDATEs and, when
\* description, problem or solution is supplied, DELETE of the embedding,
\* commit, and ensure_rule_embedding with the updated text.
call_update_rule(table, embeddings, args, fails) ==
    IF args.id \notin DOMAIN table
    THEN [rules |-> table, rule_embeddings |-> embeddings,
          op |-> [op |-> "update_rule", id |-> args.id, calls |-> 0, raised |-> FALSE],
          text |-> "not found"]
    ELSE LET row == update_row(table[args.id], args)
             updated == insert_row(table, args.id, row)
             deleted == delete_row(embeddings, args.id)
             ensured == ensure_rule_embedding(deleted, args.id, embed_text(row))
         IN  IF ~text_supplied(args)
             THEN [rules |-> updated, rule_embeddings |-> embeddings,
                   op |-> [op |-> "update_rule", id |-> args.id, calls |-> 0,
                           raised |-> FALSE],
                   text |-> "updated"]
             ELSE [rules |-> updated,
                   rule_embeddings |-> IF fails THEN deleted ELSE ensured.embeddings,
                   op |-> [op |-> "update_rule", id |-> args.id, calls |-> 1,
                           raised |-> fails],
                   text |-> IF fails THEN "Error" ELSE "updated"]

\* call_tool("delete_rule") on a store.
call_delete_rule(table, embeddings, rule_id) ==
    [rules |-> delete_row(table, rule_id),
     rule_embeddings |-> delete_row(embeddings, rule_id),
     op |-> [op |-> "delete_rule", id |-> rule_id, calls |-> 0, raised |-> FALSE],
     text |-> "deleted"]

\* The session id log_transcript returns (0: none, history logging failed
\* or the transcript names no session).
SessionId == 7

\* RuleChange proposals of the LLM; a field that is absent is None.
Proposals ==
    { [action |-> "create", description |-> <<"n","o"," ","r","m">>, solution |-> "fix"],
      [action |-> "create", type |-> "regex", pattern |-> <<"r","m">>,
       description |-> <<"x">>, rule_action |-> "block", tool |-> "Bash"],
      [action |-> "update", rule_id |-> 1, description |-> <<"u","s","e"," ","l","s">>],
      [action |-> "update", rule_id |-> 1, rule_action |-> "block", tool |-> "Edit"],
      [action |-> "delete", rule_id |-> 1] }

\* LearningOutput.changes: a list of proposals, no two of them alike.
ChangeLists ==
    UNION {{q \in [1..n -> Proposals] : \A i, j \in 1..n : q[i] = q[j] => i = j} :
              n \in 0..MaxChanges}

\* create_rule that never passes source_session_id on.
create_rule_args_no_provenance(change, session_id) ==
    Merge([type |-> Get(change, "type", "semantic"),
           description |-> Get(change, "description", <<>>),
           action |-> Get(change, "rule_action", "warn")],
          Restrict(change, {"pattern", "patterns", "problem", "solution", "tool",
                            "llm_review"}))

\* create_rule(...) in process_transcript and learning_agent.create_rule:
\* the arguments passed to add_rule for a create proposal.
create_rule_args(change, session_id) ==
    Merge(Merge([type |-> Get(change, "type", "semantic"),
                 description |-> Get(change, "description", <<>>),
                 action |-> Get(change, "rule_action", "warn")],
                Restrict(change, {"pattern", "patterns", "problem", "solution", "tool",
                                  "llm_review"})),
          IF session_id # 0 THEN [source_session_id |-> session_id] ELSE <<>>)

\* update_rule(...) in process_transcript and learning_agent.update_rule:
\* the arguments passed to update_rule for an update proposal.
update_rule_args(change) ==
    Merge(Merge([id |-> change.rule_id],
                Restrict(change, {"pattern", "patterns", "description", "problem",
                                  "solution", "llm_review"})),
          IF "rule_action" \in DOMAIN change THEN [action |-> change.rule_action] ELSE <<>>)

\* One iteration of the loop of process_transcript on a store: the change
\* is applied through call_tool; an exception is caught and recorded.
apply_one(table, embeddings, change, session_id, fails) ==
    IF change.action = "create"
    THEN call_add_rule(table, embeddings, create_rule_args(change, session_id), fails)
    ELSE IF change.action = "update"
    THEN call_update_rule(table, embeddings, update_rule_args(change), fails)
    ELSE call_delete_rule(table, embeddings, change.rule_id)

\* stats[...] += 1 after a call that returned.
count_change(stats, change, r) ==
    IF r.op.raised THEN stats
    ELSE IF change.action = "create" THEN [stats EXCEPT !.created = @ + 1]
    ELSE IF change.action = "update" THEN [stats EXCEPT !.updated = @ + 1]
    ELSE [stats EXCEPT !.deleted = @ + 1]

\* Number of create proposals in a list.
Creates(changes) == Cardinality({i \in 1..Len(changes) : changes[i].action = "create"})

\* run_learning returns before the history is logged: the transcript path
\* does not exist, the file cannot be read or parsed, or it has no entry.
run_learning_returns_early ==
    /\ pc = "idle"
    /\ learn.pc = "idle"
    /\ learn' = [NoLearn EXCEPT !.pc = "done"]
    /\ UNCHANGED <<rules, rule_embeddings, pc, req, last_op, assigned_ids>>
    /\ UNCHANGED eval_vars
    /\ UNCHANGED <<fmt, race>>

\* run_learning up to the return of extract_rule_changes: the transcript is
\* read, the history logged (session id or none) and the LLM returns its
\* proposals.
extract_rule_changes_returns ==
    /\ pc = "idle"
    /\ learn.pc = "idle"
    /\ \E session_id \in {0, SessionId}, changes \in ChangeLists :
          /\ Cardinality(DOMAIN rules) + Creates(changes) <= MaxRules
          /\ next_rowid(rules) - 1 + Creates(changes) <= MaxId
          /\ learn' = [NoLearn EXCEPT !.pc = "apply", !.session_id = session_id,
                                      !.changes = changes]
    /\ UNCHANGED <<rules, rule_embeddings, pc, req, last_op, assigned_ids>>
    /\ UNCHANGED eval_vars
    /\ UNCHANGED <<fmt, race>>

\* run_learning without its try/except around process_transcript: the
\* exception of the extraction reaches the caller.
extract_rule_changes_raises_uncaught ==
    /\ pc = "idle"
    /\ learn.pc = "idle"
    /\ \E session_id \in {0, SessionId} :
          learn' = [NoLearn EXCEPT !.pc = "crashed", !.session_id = session_id,
                                   !.raised = TRUE]
    /\ UNCHANGED <<rules, rule_embeddings, pc, req, last_op, assigned_ids>>
    /\ UNCHANGED eval_vars
    /\ UNCHANGED <<fmt, race>>

\* agent.run raises in extract_rule_changes: process_transcript raises and
\* run_learning's except branch writes the trace and returns.
extract_rule_changes_raises ==
    /\ pc = "idle"
    /\ learn.pc = "idle"
    /\ \E session_id \in {0, SessionId}, stored \in BOOLEAN :
          learn' = [NoLearn EXCEPT !.pc = "done", !.session_id = session_id,
                                   !.raised = TRUE,
                                   !.trace = [written |-> TRUE, stored |-> stored,
                                              stats |-> NoStats, writes |-> 1]]
    /\ UNCHANGED <<rules, rule_embeddings, pc, req, last_op, assigned_ids>>
    /\ UNCHANGED eval_vars
    /\ UNCHANGED <<fmt, race>>

\* The loop without its try/except: an exception ends the run.
apply_change_stops_on_error ==
    /\ learn.pc = "apply"
    /\ learn.next <= Len(learn.changes)
    /\ \E fails \in BOOLEAN :
          LET change == learn.changes[learn.next]
              r == apply_one(rules, rule_embeddings, change, learn.session_id, fails)
          IN  /\ rules' = r.rules
              /\ rule_embeddings' = r.rule_embeddings
              /\ last_op' = r.op
              /\ assigned_ids' = assigned_ids \cup (DOMAIN r.rules \ DOMAIN rules)
              /\ learn' = IF r.op.raised
                          THEN [learn EXCEPT !.pc = "done"]
                          ELSE [learn EXCEPT !.next = @ + 1,
                                             !.results = Append(@, [change |-> learn.next,
                                                                    text |-> r.text]),
                                             !.stats = count_change(@, change, r)]
    /\ UNCHANGED <<pc, req>>
    /\ UNCHANGED eval_vars
    /\ UNCHANGED <<fmt, race>>

\* process_transcript: one iteration of `for change in output.changes`.
apply_change ==
    /\ learn.pc = "apply"
    /\ learn.next <= Len(learn.changes)
    /\ \E fails \in BOOLEAN :
          LET change == learn.changes[learn.next]
              r == apply_one(rules, rule_embeddings, change, learn.session_id, fails)
          IN  /\ rules' = r.rules
              /\ rule_embeddings' = r.rule_embeddings
              /\ last_op' = r.op
              /\ assigned_ids' = assigned_ids \cup (DOMAIN r.rules \ DOMAIN rules)
              /\ learn' = [learn EXCEPT !.next = @ + 1,
                                        !.results = Append(@, [change |-> learn.next,
                                                               text |-> r.text]),
                                        !.stats = count_change(@, change, r)]
    /\ UNCHANGED <<pc, req>>
    /\ UNCHANGED eval_vars
    /\ UNCHANGED <<fmt, race>>

\* process_transcript returns and run_learning calls log_trace, whose
\* failing write is swallowed.
run_learning_finishes ==
    /\ learn.pc = "apply"
    /\ learn.next > Len(learn.changes)
    /\ \E stored \in BOOLEAN :
          learn' = [learn EXCEPT !.pc = "done",
                                 !.trace = [written |-> TRUE, stored |-> stored,
                                            stats |-> learn.stats, writes |-> 1]]
    /\ UNCHANGED <<rules, rule_embeddings, pc, req, last_op, assigned_ids>>
    /\ UNCHANGED eval_vars
    /\ UNCHANGED <<fmt, race>>

\* The background process of run_learning ends.
run_learning_exits ==
    /\ learn.pc = "done"
    /\ learn' = NoLearn
    /\ UNCHANGED <<rules, rule_embeddings, pc, req, last_op, assigned_ids>>
    /\ UNCHANGED eval_vars
    /\ UNCHANGED <<fmt, race>>

\* Learning runs on the rule store, one after the other.
LearnNext ==
    \/ run_learning_returns_early
    \/ extract_rule_changes_returns
    \/ extract_rule_changes_raises
    \/ apply_change
    \/ run_learning_finishes
    \/ run_learning_exits

LearnSpec == Init /\ [][LearnNext]_vars

\* A store filled through add_rule, which embeds every rule it adds: pattern
\* rules scoped to Bash, and last one semantic rule for every tool.
KnnStore ==
    [id \in 1..KnnRows |->
        IF id < KnnRows
        THEN Rule("regex", <<>>, PatternList(<< <<"r","m">> >>), <<"x">>, "", "Bash",
                  "warn", 1, 0, 0, 0)
        ELSE Rule("semantic", <<>>, NoPatterns, <<"n","o"," ","r","m">>, "fix", "NULL",
                  "block", 1, 0, 0, 1)]

KnnInit ==
    /\ rules = KnnStore
    /\ rule_embeddings = [id \in 1..KnnRows |-> embed_text(KnnStore[id])]
    /\ pc = "idle"
    /\ req = NoReq
    /\ regex = NoRegex
    /\ semantic_rules = <<>>
    /\ all_rules_for_llm = <<>>
    /\ llm_prompt = NoPrompt
    /\ llm_judged = {}
    /\ decision = NoDecision
    /\ raised = "none"
    /\ exit = NoExit
    /\ trace = NoTrace
    /\ embed_calls = 0
    /\ llm_calls = 0
    /\ last_op = [op |-> "add_rule", id |-> KnnRows, calls |-> 1, raised |-> FALSE]
    /\ assigned_ids = 1..KnnRows
    /\ learn = NoLearn
    /\ fmt = NoFmt
    /\ race = NoRace

\* Evaluations against that store.
KnnNext ==
    \/ main_start
    \/ sync_all_rule_embeddings
    \/ check_regex_rules_fails
    \/ check_regex_rules_passes
    \/ find_semantic_rules_raises
    \/ find_semantic_rules_returns
    \/ check_rules_with_llm
    \/ check_rules_with_llm_raises
    \/ main_exits

KnnSpec == KnnInit /\ [][KnnNext]_vars

\* Evaluations before and after one learning run, each run writing its
\* trace to an audit sink that may fail.
AuditNext ==
    \/ main_start
    \/ sync_all_rule_embeddings
    \/ sync_all_rule_embeddings_raises
    \/ check_regex_rules_fails
    \/ check_regex_rules_passes
    \/ find_semantic_rules_raises
    \/ find_semantic_rules_returns
    \/ check_rules_with_llm
    \/ check_rules_with_llm_raises
    \/ main_exits
    \/ run_learning_returns_early
    \/ extract_rule_changes_returns
    \/ extract_rule_changes_raises
    \/ apply_change
    \/ run_learning_finishes

AuditSpec == Init /\ [][AuditNext]_vars

\* The steps of an evaluation that wait for no provider: the Pattern
\* Matcher, the end of the process, and the sync when no embedding is
\* missing. The process always gets to run them.
LocalStep ==
    \/ check_regex_rules_raises
    \/ check_regex_rules_fails
    \/ check_regex_rules_passes
    \/ main_exits
    \/ (sync_all_rule_embeddings /\ rules_without_embedding(rules, rule_embeddings) = <<>>)

\* The evaluation with its scheduling: local steps are taken; a step that
\* completes client.embeddings.create or agent.run, both called without a
\* timeout, is taken only if the provider answers or fails.
FairSpec == Spec /\ WF_vars(LocalStep)

\* ------------------------------------------------------------- properties
\* check_with_agent has returned a RuleDecision to main.
Returned == pc = "exit" /\ raised = "none"

\* check_regex_rules has run in this evaluation (and regex holds its result).
PatternChecked ==
    \/ pc \in {"semantic", "arbitrate"}
    \/ (pc = "exit" /\ (raised # "embedding error" \/ embed_calls = 1))

\* The decision came from the Arbitration Stage.
Arbitrated == Returned /\ llm_calls = 1

\* The active pattern rules in scope of the request that match its input.
MatchingRows ==
    {id \in regex_rows(rules, req.tool_name) : row_matched(rules[id], req.tool_input)}

\* Those that contribute directly (llm_review unset).
DirectRows == {id \in MatchingRows : rules[id].llm_review = 0}

\* The ids of the entries of a list of rule dicts.
Ids(q) == {q[i].id : i \in 1..Len(q)}

\* C1: a block caused by a hard rule stays a block whatever the
\* justification: when a hard block rule matches directly, and when the LLM
\* finds a hard block rule of its prompt violated, the decision is block.
C1_HardBlockNotOverridable ==
    /\ (Returned /\ \E id \in DirectRows : rules[id].hard = 1 /\ rules[id].action = "block")
          => decision.action = "block"
    /\ (Arbitrated /\ \E id \in llm_judged : rules[id].hard = 1 /\ rules[id].action = "block")
          => decision.action = "block"

\* C2: when the embedding provider or the LLM provider raises during an
\* evaluation, both entrypoints report a block with a 'Rule check error'
\* explanation and the tool call does not proceed.
C2_ProviderFailureBlocks ==
    (pc = "exit" /\ raised \in {"embedding error", "llm error"}) =>
        \A e \in {"script", "hook"} :
            /\ exit[e].code = 2
            /\ exit[e].message = "BLOCKED: Rule check error"
            /\ ~proceeds(exit[e])

\* C2 witness: the LLM call of the Arbitration Stage raised.
C2_Witness == pc = "exit" /\ raised = "llm error" /\ llm_calls = 1

\* C3: if an active, in-scope pattern rule with action block and without
\* llm_review matches, the decision check_with_agent returns is
\* approved=false, action=block, whatever else matches.
C3_DirectBlockWins ==
    (Returned /\ \E id \in DirectRows : rules[id].action = "block") =>
        (decision.approved = FALSE /\ decision.action = "block")

\* C3 witness: a direct block rule and a direct warn rule both match.
C3_Witness ==
    /\ Returned
    /\ \E id \in DirectRows : rules[id].action = "block"
    /\ \E id \in DirectRows : rules[id].action = "warn"

\* A candidate found by vector search only, at distance 0.8 or more.
Far(r) == r.match_type = "vector" /\ r.distance >= CloseDistance

\* C4: if no active pattern rule in scope matches and no semantic candidate
\* is close (none by keyword, none at a distance below 0.8), the decision
\* check_with_agent returns is approved=true, action=allow.
C4_NoMatchAllows ==
    (Returned /\ MatchingRows = {} /\ \A i \in 1..Len(semantic_rules) : Far(semantic_rules[i]))
        => (decision.approved = TRUE /\ decision.action = "allow")

\* C4 witness: rules exist, none matches, and the vector search returned a
\* candidate that is not close.
C4_Witness ==
    /\ Returned
    /\ MatchingRows = {}
    /\ semantic_rules # <<>>
    /\ \A i \in 1..Len(semantic_rules) : Far(semantic_rules[i])

\* C5: with a justification that begins with 'OVERRIDE:' followed by a
\* reason, an evaluation whose warn or block comes only from soft rules
\* (matched directly, or found violated by the LLM) yields allow.
C5_SoftOverridable ==
    /\ (/\ Returned
        /\ is_override(req.justification)
        /\ DirectRows # {}
        /\ \A id \in DirectRows : rules[id].hard = 0 /\ rules[id].action \in {"warn", "block"})
          => decision.action = "allow"
    /\ (/\ Arbitrated
        /\ is_override(req.justification)
        /\ \A id \in llm_judged : rules[id].hard = 0)
          => decision.action = "allow"

\* C6: in the list handed to check_rules_with_llm and in the prompt built
\* from it, a rule is labelled HARD exactly when its stored hard flag is set.
C6_LabelsMatchHardFlag ==
    /\ pc = "arbitrate" =>
          \A i \in 1..Len(all_rules_for_llm) :
              (hard_label(all_rules_for_llm[i]) = "HARD")
                  <=> (rules[all_rules_for_llm[i].id].hard = 1)
    /\ (pc = "exit" /\ llm_calls = 1) =>
          \A i \in 1..Len(llm_prompt.rules_text) :
              (llm_prompt.rules_text[i].label = "HARD")
                  <=> (rules[llm_prompt.rules_text[i].id].hard = 1)

\* C7: if the directly contributing pattern matches are all warn rules (at
\* least one), the decision is approved=false, action=warn.
C7_WarnOnly ==
    (Returned /\ DirectRows # {} /\ \A id \in DirectRows : rules[id].action = "warn")
        => (decision.approved = FALSE /\ decision.action = "warn")

\* C7 witness: two warn rules match directly and nothing else does.
C7_Witness ==
    /\ Returned
    /\ Cardinality(DirectRows) = 2
    /\ \A id \in DirectRows : rules[id].action = "warn"

\* C8: a pattern rule that matched the input (by its single pattern or by
\* its pattern list) matches every input that differs only in letter case.
C8_CaseInsensitive ==
    (PatternChecked /\ ~regex.raised) =>
        \A id \in Ids(regex.matched_rules) \cup Ids(regex.llm_reviews) :
            \A v \in CaseVariants(req.tool_input) : row_matched(rules[id], v)

\* A pattern rule whose single pattern or pattern list is malformed.
Malformed(row) ==
    \/ (has_single_pattern(row) /\ re_error(row.pattern))
    \/ row.patterns.json = "invalid"
    \/ \E i \in 1..Len(row.patterns.items) : re_error(row.patterns.items[i])

\* C9: a malformed pattern rule raises no exception and does not match: the
\* Pattern Matcher's result is its result with that rule removed.
C9_MalformedRuleIgnored ==
    PatternChecked =>
        /\ ~regex.raised
        /\ \A id \in regex_rows(rules, req.tool_name) :
              Malformed(rules[id]) =>
                  regex = check_regex_rules(delete_row(rules, id), req.tool_name,
                                            req.tool_input)

\* C10: a matching rule with llm_review set never makes the Pattern Matcher
\* fail: a failed result has a direct match, and when every matching rule
\* has the flag the result is passed with exactly those rules to review.
C10_ReviewNeverFails ==
    (PatternChecked /\ ~regex.raised) =>
        /\ ~regex.passed => DirectRows # {}
        /\ (MatchingRows # {} /\ DirectRows = {}) =>
              /\ regex.passed
              /\ Ids(regex.llm_reviews) = MatchingRows
              /\ Len(regex.llm_reviews) = Cardinality(MatchingRows)

\* C10 witness: the only matching rules are deferred to review and the
\* evaluation has moved on to the Semantic Candidate Finder.
C10_Witness ==
    /\ pc = "semantic"
    /\ MatchingRows # {}
    /\ DirectRows = {}

\* The matching pattern rules deferred to review (llm_review set).
ReviewRows == MatchingRows \ DirectRows

\* C11: when a pattern rule matches directly, check_with_agent returns the
\* Pattern Matcher's combined result (approved=false, its action, its
\* reason) with no embedding call and no LLM call, and the result is the one
\* the Pattern Matcher gives without the review-deferred matches.
C11_DirectMatchShortCircuits ==
    (Returned /\ DirectRows # {}) =>
        LET direct_only == check_regex_rules([id \in DOMAIN rules \ ReviewRows |-> rules[id]],
                                             req.tool_name, req.tool_input)
        IN  /\ embed_calls = 0
            /\ llm_calls = 0
            /\ semantic_rules = <<>>
            /\ all_rules_for_llm = <<>>
            /\ decision.approved = FALSE
            /\ decision.action = regex.action
            /\ regex.reason # <<>> => decision.comment = regex.reason
            /\ regex.action = direct_only.action
            /\ regex.reason = direct_only.reason

\* C11 witness: a direct match and a review-deferred match of the same input.
C11_Witness ==
    /\ Returned
    /\ DirectRows # {}
    /\ ReviewRows # {}

\* A semantic candidate that is close: found by the keyword strategy, or by
\* the vector search at a distance d with 0 <= d < 0.8.
Close(r) == r.match_type = "keyword" \/ (0 <= r.distance /\ r.distance < CloseDistance)

\* check_with_agent has run to its end: it returned, or its LLM call raised.
Evaluated == pc = "exit" /\ raised \in {"none", "llm error"}

\* C12: an evaluation makes at most one LLM call: exactly one when the
\* Pattern Matcher passes and there is a review-deferred pattern match or a
\* close semantic candidate, none otherwise.
C12_OneLlmCall ==
    /\ llm_calls <= 1
    /\ Evaluated =>
          llm_calls = IF /\ regex.passed
                         /\ \/ regex.llm_reviews # <<>>
                            \/ \E i \in 1..Len(semantic_rules) : Close(semantic_rules[i])
                      THEN 1 ELSE 0

\* C13: a candidate found by vector search only, at distance 0.8 or more,
\* is never in the list handed to arbitration nor in the prompt; when no
\* candidate is close and no pattern match is deferred to review, the
\* evaluation returns allow without an LLM call.
C13_FarNotArbitrated ==
    /\ \A i \in 1..Len(semantic_rules) :
          Far(semantic_rules[i]) =>
              /\ semantic_rules[i].id \notin Ids(all_rules_for_llm)
              /\ semantic_rules[i].id \notin Ids(llm_prompt.rules_text)
    /\ (/\ Returned
        /\ \E i \in 1..Len(semantic_rules) : Far(semantic_rules[i])
        /\ \A i \in 1..Len(semantic_rules) : ~Close(semantic_rules[i])
        /\ regex.llm_reviews = <<>>)
          => (decision.approved /\ decision.action = "allow" /\ llm_calls = 0)

\* C13 witness: the LLM was called for a close candidate while another
\* candidate of the same search was too far.
C13_Witness ==
    /\ Arbitrated
    /\ \E i \in 1..Len(semantic_rules) : Far(semantic_rules[i])

\* C14: every candidate of the keyword strategy and every vector candidate
\* at a distance d with 0 <= d < 0.8 is in the list check_with_agent hands to
\* arbitration (before the cap).
C14_CloseHandedToArbitration ==
    \A i \in 1..Len(semantic_rules) :
        Close(semantic_rules[i]) => semantic_rules[i].id \in Ids(all_rules_for_llm)

\* The ids of the entries of a list of rule dicts, in the order of the list.
IdSeq(q) == [i \in 1..Len(q) |-> q[i].id]

\* C15: the rules sent to the LLM are the first five of the review-deferred
\* pattern matches (in evaluation order) followed by the close semantic
\* candidates (keyword matches, then vector-only matches), and no rule id
\* is sent twice.
C15_PromptIsFirstFive ==
    (pc = "exit" /\ llm_calls = 1) =>
        LET keyword_close == SelectSeq(semantic_rules, LAMBDA r : r.match_type = "keyword")
            vector_close == SelectSeq(semantic_rules,
                                      LAMBDA r : r.match_type = "vector" /\ Close(r))
            expected == order_by_priority(rules, ReviewRows)
                        \o IdSeq(keyword_close) \o IdSeq(vector_close)
            sent == IdSeq(llm_prompt.rules_text)
        IN  /\ sent = Take(expected, LlmRuleCap)
            /\ \A i, j \in 1..Len(sent) : sent[i] = sent[j] => i = j

\* C16: every evaluation that has started eventually reaches its decision
\* (main reports and exits), even if a provider never responds.
C16_EvaluationEnds == (pc \in {"sync", "pattern", "semantic", "arbitrate"}) ~> (pc = "exit")

\* C17: both entrypoints let the tool call proceed exactly when the action
\* of the decision is allow, and report a decision whose action is block or
\* warn as a rejection that carries its comment.
C17_ProceedsIffAllow ==
    Returned =>
        \A e \in {"script", "hook"} :
            /\ proceeds(exit[e]) <=> decision.action = "allow"
            /\ decision.action \in {"block", "warn"} =>
                  (~proceeds(exit[e]) /\ exit[e].explanation = decision.comment)

\* C18: from any store, a second call of ensure_rule_embedding for the same
\* rule id makes no embedding call and leaves the stored embeddings as the
\* first call left them; the two calls generate once if the rule had no
\* embedding.
C18_EnsureTwiceGeneratesOnce ==
    \A rule_id \in DOMAIN rules :
        \A t1, t2 \in EnsureTexts(rules[rule_id]) :
            LET first == ensure_rule_embedding(rule_embeddings, rule_id, t1)
                second == ensure_rule_embedding(first.embeddings, rule_id, t2)
            IN  /\ second.calls = 0
                /\ second.embeddings = first.embeddings
                /\ rule_id \notin DOMAIN rule_embeddings => first.calls + second.calls = 1

\* C18 witness: a call of ensure_rule_embedding returned without calling
\* the provider, the rule having its embedding from an earlier call.
C18_Witness ==
    /\ last_op.op = "ensure_rule_embedding"
    /\ last_op.calls = 0
    /\ ~last_op.raised
    /\ last_op.id \in DOMAIN rule_embeddings

\* C19: right after delete_rule(id), the rules table has no row with that
\* id and rule_embeddings has no row with that rule_id.
C19_DeleteRemovesBoth ==
    last_op.op = "delete_rule" =>
        (last_op.id \notin DOMAIN rules /\ last_op.id \notin DOMAIN rule_embeddings)

\* C19 witness: a rule that had been added was deleted while another rule
\* keeps its embedding.
C19_Witness ==
    /\ last_op.op = "delete_rule"
    /\ last_op.id \in assigned_ids
    /\ DOMAIN rule_embeddings # {}

\* C21: in process_transcript an exception raised while applying one
\* proposal is recorded in the results and does not stop the run: the
\* proposals are attempted one by one in list order, each leaves its
\* record (an error record when its call raised), and the run ends only
\* after the last proposal of the list.
C21_ChangeFailureIsolated ==
    (learn.pc \in {"apply", "done"} /\ ~learn.raised) =>
        /\ Len(learn.results) = learn.next - 1
        /\ \A i \in 1..Len(learn.results) : learn.results[i].change = i
        /\ (learn.next > 1 /\ last_op.raised) =>
              learn.results[learn.next - 1].text = "Error"
        /\ learn.pc = "done" => learn.next = Len(learn.changes) + 1

\* A run whose first proposal raised and whose second was applied.
C21_Witness ==
    /\ learn.pc = "done"
    /\ Len(learn.results) = 2
    /\ learn.results[1].text = "Error"
    /\ learn.results[2].text \notin {"Error", "not found"}

\* C20: a row inserted into the rules table gets an id greater than every
\* id given out before, so the id of a deleted rule is not given again.
C20_IdsNeverReused ==
    [][\A id \in DOMAIN rules' \ DOMAIN rules : \A old \in assigned_ids : id > old]_vars

\* C22: when the LLM extraction call of a learning run fails, the run
\* changes neither the rules nor their embeddings, counts no created,
\* updated or deleted rule, and run_learning returns normally.
C22_ExtractionFailureAppliesNothing ==
    [][(learn.raised \/ learn'.raised) =>
          /\ rules' = rules
          /\ rule_embeddings' = rule_embeddings
          /\ learn'.raised => /\ learn'.pc = "done"
                              /\ learn'.stats = NoStats
                              /\ learn'.results = <<>>]_vars

\* A run on a store that holds a rule ended after its extraction failed.
C22_Witness ==
    /\ learn.raised
    /\ learn.pc = "done"
    /\ DOMAIN rules # {}

\* C23: a failure of the audit write never changes the result of the run
\* it records: the exit status and output of an evaluation are those its
\* decision alone determines, and the step of a learning run that writes
\* the trace leaves the rules, the embeddings, the results and the counts
\* as the loop left them and ends the run, whether the write is stored or
\* fails.
C23_AuditFailureChangesNothing ==
    [][/\ (pc' = "exit" /\ pc # "exit") =>
             exit' = [script |-> script_exit(raised', decision'),
                      hook |-> hook_exit(raised', decision')]
       /\ (learn'.trace.written /\ ~learn.trace.written) =>
             /\ rules' = rules
             /\ rule_embeddings' = rule_embeddings
             /\ learn'.results = learn.results
             /\ learn'.stats = learn.stats
             /\ learn'.pc = "done"]_vars

\* An evaluation that blocked and a learning run that created a rule, the
\* audit write of both having failed.
C23_Witness ==
    /\ pc = "exit"
    /\ trace.decision = "block"
    /\ ~trace.stored
    /\ learn.pc = "done"
    /\ learn.stats.created >= 1
    /\ learn.trace.written
    /\ ~learn.trace.stored

\* The proposal the loop of process_transcript is about to apply is an
\* update, and this step applies it.
UpdateStep ==
    /\ learn.pc = "apply"
    /\ learn.next <= Len(learn.changes)
    /\ learn.changes[learn.next].action = "update"
    /\ learn'.next = learn.next + 1

\* The columns of a rule an update proposal supplies (rule_action is the
\* proposal's name of the column action).
Supplied(change) ==
    ((DOMAIN change) \ {"action", "rule_id"}) \cup
        (IF "rule_action" \in DOMAIN change THEN {"action"} ELSE {})

\* C24: an update proposal changes only the fields it supplies: every
\* column of the target rule the proposal leaves unset keeps its value, no
\* rule is added or removed, and every other rule is unchanged.
C24_UpdatePatchesSuppliedOnly ==
    [][UpdateStep =>
          LET change == learn.changes[learn.next]
          IN  /\ DOMAIN rules' = DOMAIN rules
              /\ \A id \in DOMAIN rules :
                    \A f \in DOMAIN rules[id] :
                        (id # change.rule_id \/ f \notin Supplied(change)) =>
                            rules'[id][f] = rules[id][f]]_vars

\* An update of the description of rule 1, which carries a solution, in a
\* store that holds another rule.
C24_Witness ==
    /\ learn.pc = "apply"
    /\ learn.next > 1
    /\ learn.changes[learn.next - 1].action = "update"
    /\ last_op.op = "update_rule"
    /\ DOMAIN rules = {1, 2}
    /\ rules[1].description = <<"u","s","e"," ","l","s">>
    /\ rules[1].solution = "fix"

\* C25: after an update that supplies description, problem or solution
\* completes, the stored embedding of the rule is the one generated from
\* the rule's updated text; an update that supplies none of the three
\* leaves the stored embeddings unchanged.
C25_UpdateRegeneratesEmbedding ==
    [][(UpdateStep /\ learn.changes[learn.next].rule_id \in DOMAIN rules) =>
          LET change == learn.changes[learn.next]
              id == change.rule_id
          IN  IF Supplied(change) \cap {"description", "problem", "solution"} # {}
              THEN ~last_op'.raised =>
                      /\ id \in DOMAIN rule_embeddings'
                      /\ rule_embeddings'[id] =
                            rules'[id].description
                                \o (IF rules'[id].problem # ""
                                    THEN <<" Problem: ", rules'[id].problem>> ELSE <<>>)
                                \o (IF rules'[id].solution # ""
                                    THEN <<" Solution: ", rules'[id].solution>> ELSE <<>>)
              ELSE rule_embeddings' = rule_embeddings]_vars

\* An update of the description of rule 1 completed, and the embedding of
\* rule 1 is no longer the one of the text it was created with.
C25_Witness ==
    /\ learn.pc = "apply"
    /\ learn.next > 1
    /\ learn.changes[learn.next - 1].action = "update"
    /\ last_op = [op |-> "update_rule", id |-> 1, calls |-> 1, raised |-> FALSE]
    /\ 1 \in DOMAIN rule_embeddings
    /\ rule_embeddings[1] = <<"u","s","e"," ","l","s", " Solution: ", "fix">>

\* C26: every stored embedding of a rule was generated from the rule's
\* description, problem and solution text, whichever of add_rule,
\* update_rule and sync_all_rule_embeddings stored it.
C26_EmbeddingFromFullText ==
    \A id \in DOMAIN rule_embeddings \cap DOMAIN rules :
        rule_embeddings[id] = embed_text(rules[id])

\* The proposal the loop of process_transcript is about to apply is a
\* create, and this step applies it.
CreateStep ==
    /\ learn.pc = "apply"
    /\ learn.next <= Len(learn.changes)
    /\ learn.changes[learn.next].action = "create"
    /\ learn'.next = learn.next + 1

\* The create step stored exactly one new rule, with the defaults of the
\* Learning Applier for a type and a rule action left unset, and the rule
\* has an embedding when the step completed without raising.
CreatedWithDefaults ==
    LET change == learn.changes[learn.next]
        created == DOMAIN rules' \ DOMAIN rules
    IN  /\ Cardinality(created) = 1
        /\ \A id \in created :
              /\ "type" \notin DOMAIN change => rules'[id].type = "semantic"
              /\ "rule_action" \notin DOMAIN change => rules'[id].action = "warn"
              /\ ~last_op'.raised => id \in DOMAIN rule_embeddings'

\* C27 as stated: a create proposal with no type is stored as a semantic
\* rule and one with no rule action with action warn; every rule the
\* Learning Applier creates carries a session id as provenance and has an
\* embedding once its create step completes.
C27_CreateDefaultsAndProvenance ==
    [][CreateStep =>
          /\ CreatedWithDefaults
          /\ \A id \in DOMAIN rules' \ DOMAIN rules :
                rules'[id].source_session_id # 0]_vars

\* C27 amended: as above, but the provenance of a created rule is the
\* session id history logging returned to the run, and none when history
\* logging returned none.
C27_CreateDefaultsAndRunProvenance ==
    [][CreateStep =>
          /\ CreatedWithDefaults
          /\ \A id \in DOMAIN rules' \ DOMAIN rules :
                rules'[id].source_session_id = learn.session_id]_vars

\* A run with a session id created a rule from a proposal that names
\* neither type nor rule action.
C27_Witness ==
    /\ learn.pc = "apply"
    /\ learn.next > 1
    /\ learn.session_id = SessionId
    /\ learn.changes[learn.next - 1].action = "create"
    /\ DOMAIN learn.changes[learn.next - 1] \cap {"type", "rule_action"} = {}
    /\ last_op.op = "add_rule"
    /\ ~last_op.raised
    /\ last_op.id \in DOMAIN rules
    /\ rules[last_op.id].type = "semantic"
    /\ rules[last_op.id].action = "warn"
    /\ rules[last_op.id].source_session_id = SessionId
    /\ last_op.id \in DOMAIN rule_embeddings

\* The rules that contribute a line to the comment of the Pattern Matcher:
\* the direct matches whose action is block or warn.
Contributing == {id \in DirectRows : rules[id].action \in {"block", "warn"}}

SemanticSearched == pc = "arbitrate" \/ (Returned /\ embed_calls = 1)

\* The active semantic rules in scope of the request that have an embedding.
ScopedEmbedded == semantic_rows(rules, req.tool_name) \cap DOMAIN rule_embeddings

\* C29: the vector strategy returns the k nearest rules among the active
\* semantic-kind rules scoped to the tool, whatever other embeddings are
\* stored: when at most k such rules have an embedding, every one of them
\* is among the candidates.
C29_KnnAmongScopedSemantic ==
    (SemanticSearched /\ Cardinality(ScopedEmbedded) <= TopK) =>
        ScopedEmbedded \subseteq Ids(semantic_rules)

\* The active pattern rules whose pattern or pattern list matches the input
\* of the request, whatever their tool scope.
MatchingAnyTool ==
    {id \in DOMAIN rules :
        /\ rules[id].type = "regex"
        /\ rules[id].active = 1
        /\ row_matched(rules[id], req.tool_input)}

\* C30: a pattern rule scoped to a tool contributes only to evaluations of
\* that tool, and a rule with no tool scope contributes to evaluations of
\* every tool: the rules the Pattern Matcher reports as matched or hands
\* over for review are exactly the matching active pattern rules whose
\* tool is unset or is the tool of the request.
C30_ToolScope ==
    (pc \in {"semantic", "arbitrate", "exit"} /\ raised = "none" /\ PatternChecked) =>
        Ids(regex.matched_rules) \cup Ids(regex.llm_reviews) =
            {id \in MatchingAnyTool : rules[id].tool \in {"NULL", req.tool_name}}

\* An Edit request whose input matches a rule scoped to Bash and a rule with
\* no scope: only the unscoped rule is reported.
C30_Witness ==
    /\ pc = "exit"
    /\ raised = "none"
    /\ req.tool_name = "Edit"
    /\ \E id \in MatchingAnyTool : rules[id].tool = "Bash"
    /\ \E id \in MatchingAnyTool : rules[id].tool = "NULL" /\ id \in Ids(regex.matched_rules)

\* C33: every Decision check_with_agent returns has an action among allow,
\* warn and block, and is approved exactly when its action is allow, on the
\* pattern path, on the no-candidate path and on the arbitration path.
C33_DecisionWellFormed ==
    Returned =>
        /\ decision.action \in {"allow", "warn", "block"}
        /\ decision.approved <=> (decision.action = "allow")

\* C34: a pattern rule whose action is log never causes a rejection: when
\* every pattern rule that matches the request has action log, and nothing
\* was handed to the Arbitration Stage, the evaluation returns approved
\* with action allow.
C34_LogNeverRejects ==
    (/\ Returned
     /\ llm_calls = 0
     /\ MatchingRows # {}
     /\ \A id \in MatchingRows : rules[id].action = "log") =>
        (decision.approved /\ decision.action = "allow")

\* The loop of process_transcript applies its next proposal in this step.
ApplyStep ==
    /\ learn.pc = "apply"
    /\ learn.next <= Len(learn.changes)
    /\ learn'.next = learn.next + 1

\* C35: the created, updated and deleted counts of process_transcript equal
\* the numbers of rules inserted, modified and removed in the Rule Store by
\* the run; stated for each proposal: its step raises created by the
\* number of rows it inserted, deleted by the number of rows it removed,
\* and updated by one exactly when it ran its UPDATEs on an existing row.
C35_CountsMatchStore ==
    [][ApplyStep =>
          LET change == learn.changes[learn.next]
          IN  /\ learn'.stats.created - learn.stats.created =
                    Cardinality(DOMAIN rules' \ DOMAIN rules)
              /\ learn'.stats.deleted - learn.stats.deleted =
                    Cardinality(DOMAIN rules \ DOMAIN rules')
              /\ learn'.stats.updated - learn.stats.updated =
                    IF change.action = "update" /\ change.rule_id \in DOMAIN rules
                    THEN 1 ELSE 0]_vars

\* C36: a proposed change that is recorded as failed leaves the Rule Store,
\* rules and embeddings alike, exactly as it was before the change was
\* attempted.
C36_FailedChangeLeavesStore ==
    [][(ApplyStep /\ learn'.results[learn.next].text = "Error") =>
          (rules' = rules /\ rule_embeddings' = rule_embeddings)]_vars

\* C31: every evaluation run and every learning run attempts exactly one
\* trace write before it finishes, runs that end in an error or find
\* nothing to do included: an evaluation at its exit and a learning run at
\* its end have called log_trace once.
C31_OneTraceWritePerRun ==
    /\ pc = "exit" => trace.writes = 1
    /\ learn.pc = "done" => learn.trace.writes = 1

\* ------------------------------------------- format_transcript, called
\* The state before a call of format_transcript: a transcript, max_entries
\* and max_chars.
FormatInit ==
    /\ rules = <<>>
    /\ rule_embeddings = <<>>
    /\ pc = "idle"
    /\ req = NoReq
    /\ regex = NoRegex
    /\ semantic_rules = <<>>
    /\ all_rules_for_llm = <<>>
    /\ llm_prompt = NoPrompt
    /\ llm_judged = {}
    /\ decision = NoDecision
    /\ raised = "none"
    /\ exit = NoExit
    /\ trace = NoTrace
    /\ embed_calls = 0
    /\ llm_calls = 0
    /\ last_op = NoOp
    /\ assigned_ids = {}
    /\ learn = NoLearn
    /\ \E transcript \in Transcripts, max_entries \in MaxEntriesArgs,
          max_chars \in MaxCharsArgs :
          fmt = [NoFmt EXCEPT !.pc = "call", !.transcript = transcript,
                              !.max_entries = max_entries, !.max_chars = max_chars]
    /\ race = NoRace

\* format_transcript returns the excerpt.
format_transcript_returns ==
    /\ fmt.pc = "call"
    /\ fmt' = [fmt EXCEPT !.pc = "done",
                          !.lines = format_lines(fmt.transcript, fmt.max_entries,
                                                 fmt.max_chars),
                          !.out = format_transcript(fmt.transcript, fmt.max_entries,
                                                    fmt.max_chars)]
    /\ UNCHANGED <<rules, rule_embeddings, pc, req, last_op, assigned_ids, learn, race>>
    /\ UNCHANGED eval_vars

FormatNext == format_transcript_returns

FormatSpec == FormatInit /\ [][FormatNext]_vars

\* The characters of a text.
Range(q) == {q[i] : i \in 1..Len(q)}

\* The characters of the payloads a transcript carries: the content of its
\* tool_result items and the input of its tool_use items.
Payloads(transcript) ==
    UNION { LET content == transcript[i].message.content
            IN  IF "list" \in DOMAIN content
                THEN UNION { IF content.list[j].type = "tool_result"
                             THEN Range(content.list[j].content)
                             ELSE IF content.list[j].type = "tool_use"
                             THEN Range(content.list[j].input)
                             ELSE {} : j \in 1..Len(content.list) }
                ELSE {}
            : i \in 1..Len(transcript) }

\* The characters an entry may show in its line: its role in upper case,
\* ": ", and its text, the texts of its text items and its tool names in
\* "[Tool: <name>]", joined by spaces.
Surface(entry) ==
    LET content == entry.message.content
    IN  Range(UpperRole(Get(entry.message, "role", entry.type))) \cup {":", " "}
        \cup (IF "str" \in DOMAIN content THEN Range(content.str)
              ELSE IF "other" \in DOMAIN content THEN Range(content.other)
              ELSE UNION { IF content.list[j].type = "text"
                           THEN Range(content.list[j].text)
                           ELSE IF content.list[j].type = "tool_use"
                           THEN Range(content.list[j].name)
                                \cup {"[", "T", "o", "l", ":", " ", "]"}
                           ELSE {} : j \in 1..Len(content.list) })

\* C32: the excerpt format_transcript returns shows no character of a
\* tool_result content or a tool_use input, and its lines come, in transcript
\* order, from distinct user or assistant entries among the last
\* max_entries entries, each line showing only its entry's role, text and
\* tool names.
C32_ExcerptFromRecentTurns ==
    fmt.pc = "done" =>
        /\ Range(fmt.out) \cap Payloads(fmt.transcript) = {}
        /\ \E f \in [1..Len(fmt.lines) -> 1..Len(fmt.transcript)] :
              \A k \in 1..Len(fmt.lines) :
                 /\ k > 1 => f[k - 1] < f[k]
                 /\ f[k] > Len(fmt.transcript) - fmt.max_entries
                 /\ fmt.transcript[f[k]].type \in {"user", "assistant"}
                 /\ Range(fmt.lines[k]) \subseteq Surface(fmt.transcript[f[k]])

\* A transcript longer than max_entries whose last entry has a tool call
\* and a tool result, with one line per entry of the window.
C32_Witness ==
    /\ fmt.pc = "done"
    /\ Len(fmt.transcript) > fmt.max_entries
    /\ Len(fmt.lines) = 2
    /\ fmt.transcript[1].type \in {"user", "assistant"}
    /\ LET content == fmt.transcript[Len(fmt.transcript)].message.content
       IN  /\ "list" \in DOMAIN content
           /\ \E j \in 1..Len(content.list) : content.list[j].type = "tool_result"
           /\ \E j \in 1..Len(content.list) : content.list[j].type = "tool_use"

\* --------------------------- the sync and the handlers, statement by statement
\* The processes that call ensure_rule_embedding: the sync of an evaluation
\* and a rule store handler of a learning run.
Procs == {"sync", "learn"}

\* The rows rules are made of here: a semantic rule with a solution and a
\* pattern rule.
RaceTemplates ==
    { Rule("semantic", <<>>, NoPatterns, <<"n","o"," ","r","m">>, "fix", "NULL",
           "block", 1, 0, 0, 0),
      Rule("regex", <<"r","m">>, NoPatterns, <<"x">>, "", "Bash", "warn", 1, 0, 0, 0) }

\* The stores the processes start on: up to MaxRules rules, each embedded
\* by add_rule or not yet embedded.
RaceInit ==
    /\ \E n \in 1..MaxRules :
          /\ rules \in [1..n -> RaceTemplates]
          /\ \E embedded \in SUBSET (1..n) :
                rule_embeddings = [id \in embedded |-> embed_text(rules[id])]
          /\ assigned_ids = 1..n
    /\ pc = "idle"
    /\ req = NoReq
    /\ regex = NoRegex
    /\ semantic_rules = <<>>
    /\ all_rules_for_llm = <<>>
    /\ llm_prompt = NoPrompt
    /\ llm_judged = {}
    /\ decision = NoDecision
    /\ raised = "none"
    /\ exit = NoExit
    /\ trace = NoTrace
    /\ embed_calls = 0
    /\ llm_calls = 0
    /\ last_op = NoOp
    /\ learn = NoLearn
    /\ fmt = NoFmt
    /\ race = NoRace

\* sync_all_rule_embeddings: the SELECT of the active rules that have no
\* embedding; fetchall() keeps their ids and descriptions.
sync_all_rule_embeddings_selects ==
    /\ race.sync = "idle"
    /\ LET todo == rules_without_embedding(rules, rule_embeddings)
       IN  race' = [race EXCEPT !.sync = "loop",
                                !.rows = [i \in 1..Len(todo) |->
                                             [id |-> todo[i],
                                              description |-> rules[todo[i]].description]]]
    /\ UNCHANGED <<rules, rule_embeddings, pc, req, last_op, assigned_ids, learn, fmt>>
    /\ UNCHANGED eval_vars

\* for row in cursor.fetchall(): the call of ensure_rule_embedding for the
\* next row.
sync_all_rule_embeddings_calls ==
    /\ race.sync = "loop"
    /\ race.rows # <<>>
    /\ race.ensure["sync"].pc \in {"none", "done"}
    /\ race' = [race EXCEPT !.rows = Tail(@),
                            !.ensure["sync"] = [pc |-> "select",
                                                rule_id |-> Head(race.rows).id,
                                                text |-> Head(race.rows).description,
                                                cause |-> "none"]]
    /\ UNCHANGED <<rules, rule_embeddings, pc, req, last_op, assigned_ids, learn, fmt>>
    /\ UNCHANGED eval_vars

\* The loop of sync_all_rule_embeddings is over.
sync_all_rule_embeddings_returns ==
    /\ race.sync = "loop"
    /\ race.rows = <<>>
    /\ race.ensure["sync"].pc \in {"none", "done"}
    /\ race' = [race EXCEPT !.sync = "idle", !.ensure["sync"] = NoEnsure]
    /\ UNCHANGED <<rules, rule_embeddings, pc, req, last_op, assigned_ids, learn, fmt>>
    /\ UNCHANGED eval_vars

\* The exception of ensure_rule_embedding leaves sync_all_rule_embeddings
\* and check_rules_async: the evaluation ends on its except branch.
sync_all_rule_embeddings_fails ==
    /\ race.sync = "loop"
    /\ race.ensure["sync"].pc = "raised"
    /\ race' = [race EXCEPT !.sync = "idle", !.rows = <<>>, !.ensure["sync"] = NoEnsure]
    /\ UNCHANGED <<rules, rule_embeddings, pc, req, last_op, assigned_ids, learn, fmt>>
    /\ UNCHANGED eval_vars

\* ensure_rule_embedding: SELECT 1 FROM rule_embeddings WHERE rule_id = ?,
\* and the return when a row exists.
ensure_rule_embedding_selects(p) ==
    /\ race.ensure[p].pc = "select"
    /\ race' = [race EXCEPT !.ensure[p].pc =
                   IF race.ensure[p].rule_id \in DOMAIN rule_embeddings
                   THEN "done" ELSE "insert"]
    /\ UNCHANGED <<rules, rule_embeddings, pc, req, last_op, assigned_ids, learn, fmt>>
    /\ UNCHANGED eval_vars

\* ensure_rule_embedding: generate_embedding, which may raise, then INSERT
\* INTO rule_embeddings and commit. rule_id is the PRIMARY KEY of the
\* table: the INSERT raises when a row for rule_id exists by now. No
\* statement looks at the rules table.
ensure_rule_embedding_inserts(p) ==
    /\ race.ensure[p].pc = "insert"
    /\ \E fails \in BOOLEAN :
          LET op == race.ensure[p]
          IN  IF fails
              THEN /\ race' = [race EXCEPT !.ensure[p].pc = "raised",
                                           !.ensure[p].cause = "provider"]
                   /\ UNCHANGED rule_embeddings
              ELSE IF op.rule_id \in DOMAIN rule_embeddings
              THEN /\ race' = [race EXCEPT !.ensure[p].pc = "raised",
                                           !.ensure[p].cause = "primary key"]
                   /\ UNCHANGED rule_embeddings
              ELSE /\ race' = [race EXCEPT !.ensure[p].pc = "done"]
                   /\ rule_embeddings' = insert_row(rule_embeddings, op.rule_id, op.text)
    /\ UNCHANGED <<rules, pc, req, last_op, assigned_ids, learn, fmt>>
    /\ UNCHANGED eval_vars

\* call_tool("add_rule") up to its call of ensure_rule_embedding: INSERT
\* INTO rules, commit, rule_id = cursor.lastrowid, embed_text.
add_rule_commits ==
    /\ race.handler = "none"
    /\ Cardinality(DOMAIN rules) < MaxRules
    /\ next_rowid(rules) <= MaxId
    /\ \E change \in {c \in Proposals : c.action = "create"} :
          LET rule_id == next_rowid(rules)
              row == add_rule_row(create_rule_args(change, 0))
          IN  /\ rules' = insert_row(rules, rule_id, row)
              /\ assigned_ids' = assigned_ids \cup {rule_id}
              /\ race' = [race EXCEPT !.handler = "add_rule",
                                      !.ensure["learn"] = [pc |-> "select",
                                                           rule_id |-> rule_id,
                                                           text |-> embed_text(row),
                                                           cause |-> "none"]]
    /\ UNCHANGED <<rule_embeddings, pc, req, last_op, learn, fmt>>
    /\ UNCHANGED eval_vars

\* call_tool("update_rule") of an existing rule up to its call of
\* ensure_rule_embedding: the UPDATEs, commit and, when description, problem
\* or solution is supplied, DELETE FROM rule_embeddings and commit.
update_rule_commits ==
    /\ race.handler = "none"
    /\ \E change \in {c \in Proposals : c.action = "update"} :
          LET args == update_rule_args(change)
              row == update_row(rules[args.id], args)
          IN  /\ args.id \in DOMAIN rules
              /\ rules' = insert_row(rules, args.id, row)
              /\ IF text_supplied(args)
                 THEN /\ rule_embeddings' = delete_row(rule_embeddings, args.id)
                      /\ race' = [race EXCEPT !.handler = "update_rule",
                                              !.ensure["learn"] = [pc |-> "select",
                                                                   rule_id |-> args.id,
                                                                   text |-> embed_text(row),
                                                                   cause |-> "none"]]
                 ELSE /\ UNCHANGED rule_embeddings
                      /\ race' = [race EXCEPT !.handler = "update_rule",
                                              !.ensure["learn"].pc = "done"]
    /\ UNCHANGED <<pc, req, last_op, assigned_ids, learn, fmt>>
    /\ UNCHANGED eval_vars

\* call_tool("delete_rule"): both DELETEs and the commit.
delete_rule_commits ==
    /\ race.handler = "none"
    /\ \E rule_id \in DOMAIN rules :
          LET r == call_delete_rule(rules, rule_embeddings, rule_id)
          IN  /\ rules' = r.rules
              /\ rule_embeddings' = r.rule_embeddings
    /\ UNCHANGED <<pc, req, last_op, assigned_ids, learn, fmt, race>>
    /\ UNCHANGED eval_vars

\* The handler returns its text, or process_transcript catches the
\* exception of ensure_rule_embedding.
call_tool_returns ==
    /\ race.handler # "none"
    /\ race.ensure["learn"].pc \in {"done", "raised"}
    /\ race' = [race EXCEPT !.handler = "none", !.ensure["learn"] = NoEnsure]
    /\ UNCHANGED <<rules, rule_embeddings, pc, req, last_op, assigned_ids, learn, fmt>>
    /\ UNCHANGED eval_vars

\* The sync of evaluations and the handlers of a learning run, in two
\* processes without a lock between them.
RaceNext ==
    \/ sync_all_rule_embeddings_selects
    \/ sync_all_rule_embeddings_calls
    \/ sync_all_rule_embeddings_returns
    \/ sync_all_rule_embeddings_fails
    \/ \E p \in Procs : ensure_rule_embedding_selects(p)
    \/ \E p \in Procs : ensure_rule_embedding_inserts(p)
    \/ add_rule_commits
    \/ update_rule_commits
    \/ delete_rule_commits
    \/ call_tool_returns

RaceSpec == RaceInit /\ [][RaceNext]_vars

\* C37: whatever way the sync of evaluations and the deletions of a
\* learning run interleave, every row of rule_embeddings belongs to a rule
\* of the rules table.
C37_NoOrphanEmbedding == DOMAIN rule_embeddings \subseteq DOMAIN rules

\* C38: when the sync and a handler have both finished
\* ensure_rule_embedding for the same rule and the provider has answered
\* both, neither call raised and the rule has its embedding.
C38_ConcurrentEnsureSucceeds ==
    LET a == race.ensure["sync"]
        b == race.ensure["learn"]
    IN  (/\ a.pc \in {"done", "raised"}
         /\ b.pc \in {"done", "raised"}
         /\ race.handler # "none"
         /\ a.rule_id = b.rule_id
         /\ a.cause # "provider"
         /\ b.cause # "provider")
        => /\ a.pc = "done"
           /\ b.pc = "done"
           /\ a.rule_id \in DOMAIN rule_embeddings


====
